---- MODULE Spec2Model ----
(***************************************************************************)
(* Model of the GraphDL statement parser (src/src/parser.ts).              *)
(*                                                                         *)
(* A text is a sequence of atoms.  An atom is a whitespace character, a    *)
(* punctuation character, or a run of letters (a chunk).  A word is a      *)
(* maximal run of chunks: "vendor" is <<"vend", "or">>, so that a regular  *)
(* expression that looks for the letters "or" followed by whitespace sees  *)
(* them at the end of "vendor" exactly as the JavaScript engine does.      *)
(* Every word of the vocabulary is chunked so that each place where a      *)
(* pattern of the source can match inside it is a chunk boundary.          *)
(***************************************************************************)
EXTENDS Integers, Sequences, FiniteSets, TLC

\* ------------------------------------------------------------------------
\* Characters and case
\* ------------------------------------------------------------------------

\* whitespace atoms (\s)
Spaces == {" "}

\* punctuation atoms: not \w, not \s
Puncts == {",", "/", "-", ".", ";", ":", "(", ")", "'"}

\* \w : letters (digits and underscore do not occur in the vocabulary)
IsW(a) == a \notin Spaces \cup Puncts

IsS(a) == a \in Spaces

\* String.prototype.toLowerCase on one atom: the atoms that contain an
\* upper-case letter, paired with their lower-case form
LowerPairs ==
  { <<"Prepare", "prepare">>, <<"File", "file">>, <<"Inspect", "inspect">>,
    <<"Assist", "assist">>, <<"Support", "support">>,
    <<"Collect", "collect">>, <<"Report", "report">>,
    <<"Improve", "improve">>, <<"Frobnicate", "frobnicate">>,
    <<"Excavating", "excavating">>, <<"Loading", "loading">>,
    <<"Machine", "machine">>, <<"Reports", "reports">>,
    <<"Record", "record">>, <<"Keeping", "keeping">>,
    <<"Mechanical", "mechanical">>, <<"Equipment", "equipment">>,
    <<"Generation", "generation">>, <<"Quality", "quality">>,
    <<"Control", "control">>, <<"Risk", "risk">>,
    <<"Management", "management">>, <<"Research", "research">>,
    <<"Findings", "findings">>, <<"Services", "services">>,
    <<"Data", "data">>, <<"Plans", "plans">>, <<"Prices", "prices">>,
    <<"Lists", "lists">>, <<"Vend", "vend">>, <<"Br", "br">>,
    <<"Both", "both">>, <<"Such", "such">>, <<"Of", "of">>, <<"As", "as">>,
    <<"On", "on">>, <<"To", "to">>, <<"With", "with">>, <<"F", "f">>,
    <<"Cost", "cost">>, <<"Reduction", "reduction">>, <<"Old", "old">>,
    <<"Concerned", "concerned">>, <<"The", "the">>, <<"Some", "some">>,
    <<"New", "new">>, <<"Related", "related">>, <<"Focused", "focused">>,
    <<"Select", "select">>, <<"Ensure", "ensure">> }

toLowerCaseAtom(a) ==
  IF \E p \in LowerPairs : p[1] = a
  THEN (CHOOSE p \in LowerPairs : p[1] = a)[2]
  ELSE a

\* text.toLowerCase()
toLowerCase(t) == [i \in 1..Len(t) |-> toLowerCaseAtom(t[i])]

\* /^[A-Z]/ on a token's text
StartsUpper(a) == \E p \in LowerPairs : p[1] = a

\* charAt(0).toUpperCase() + slice(1) on a chunk that starts a word
CapPairs == {<<p[2], p[1]>> : p \in LowerPairs}

capitalizeAtom(a) ==
  IF \E p \in CapPairs : p[1] = a
  THEN (CHOOSE p \in CapPairs : p[1] = a)[2]
  ELSE a

\* StatementParser.capitalize
capitalize(t) ==
  IF t = <<>> THEN t ELSE <<capitalizeAtom(t[1])>> \o Tail(t)

\* ------------------------------------------------------------------------
\* Regular expressions: a pattern is a sequence of items, matched by
\* backtracking in the order ECMAScript tries the alternatives
\* ------------------------------------------------------------------------

Item(k, c, sub, lazy) == <<[k |-> k, c |-> c, sub |-> sub, lazy |-> lazy]>>

W    == Item("cls", "w", <<>>, FALSE)      \* \w
S    == Item("cls", "s", <<>>, FALSE)      \* \s
NS   == Item("cls", "ns", <<>>, FALSE)     \* [^\s]
Dot  == Item("cls", "dot", <<>>, FALSE)    \* .
Lit(a) == Item("lit", a, <<>>, FALSE)      \* one literal atom, flag i
Bol  == Item("bol", "", <<>>, FALSE)       \* ^
Eol  == Item("eol", "", <<>>, FALSE)       \* $
Wb   == Item("wb", "", <<>>, FALSE)        \* \b
Open(g)  == Item("open", g, <<>>, FALSE)   \* (  of group g
Close(g) == Item("close", g, <<>>, FALSE)  \* )  of group g
Star(p)  == Item("star", "", p, FALSE)     \* p*
LazyStar(p) == Item("star", "", p, TRUE)   \* p*?
Plus(p)  == p \o Star(p)                   \* p+
LazyPlus(p) == p \o LazyStar(p)            \* p+?
Opt(p)   == Item("opt", "", p, FALSE)      \* p?
Alt(ps)  == Item("alt", "", ps, FALSE)     \* p1|p2|...
Cap(g, p) == Open(g) \o p \o Close(g)      \* (p) as group g
AndOr == Alt(<<Lit("and"), Lit("or")>>)    \* and|or

InClass(c, a) ==
  CASE c = "w"   -> IsW(a)
    [] c = "s"   -> IsS(a)
    [] c = "ns"  -> ~IsS(a)
    [] c = "dot" -> TRUE

NoMatch == [ok |-> FALSE, end |-> 0, caps |-> <<>>]

NoCaps == [g \in 1..6 |-> <<0, 0>>]

\* position i (1-based, before atom i) is a word boundary
IsBoundary(t, i) ==
  LET before == i > 1 /\ IsW(t[i - 1])
      after  == i <= Len(t) /\ IsW(t[i])
  IN  before # after

\* the least and the greatest number of a non-empty set
Least(s) == CHOOSE m \in s : \A x \in s : m <= x

Greatest(s) == CHOOSE m \in s : \A x \in s : x <= m

\* the kind of the first item of a pattern
kindOf(items) == IF items = <<>> THEN "end" ELSE items[1].k

\* the first item repeats one class of atoms
isClassStar(items) ==
  /\ kindOf(items) = "star"
  /\ Len(items[1].sub) = 1
  /\ items[1].sub[1].k = "cls"

\* the position after the atoms of class c that follow one another from
\* position i on
runEnd(c, t, i) ==
  Least({k \in i..(Len(t) + 1) : k = Len(t) + 1 \/ ~InClass(c, t[k])})

\* r when it matched, the next alternative when not
orElse(r, other) == IF r.ok THEN r ELSE other

\* of the outcomes rs, one per number of repetitions or per alternative,
\* the first that matched
fewest(rs) ==
  IF \A j \in DOMAIN rs : ~rs[j].ok THEN NoMatch
  ELSE rs[Least({j \in DOMAIN rs : rs[j].ok})]

\* the one with the most repetitions that matched
most(rs) ==
  IF \A j \in DOMAIN rs : ~rs[j].ok THEN NoMatch
  ELSE rs[Greatest({j \in DOMAIN rs : rs[j].ok})]

RECURSIVE MatchAt(_, _, _, _)

\* the rest of the pattern, tried after each number of atoms of class c
afterRun(c, rest, t, i, caps) ==
  [j \in i..runEnd(c, t, i) |-> MatchAt(rest, t, j, caps)]

\* the first item takes the atom at position i
takes(items, t, i) ==
  /\ i <= Len(t)
  /\ \/ kindOf(items) = "cls" /\ InClass(items[1].c, t[i])
     \/ kindOf(items) = "lit" /\ toLowerCaseAtom(t[i]) = items[1].c

\* the first item is an assertion that holds at position i
holds(items, t, i) ==
  \/ kindOf(items) = "bol" /\ i = 1
  \/ kindOf(items) = "eol" /\ i = Len(t) + 1
  \/ kindOf(items) = "wb" /\ IsBoundary(t, i)

\* the rest of the pattern, tried after each alternative
afterEach(subs, rest, t, i, caps) ==
  [a \in DOMAIN subs |-> MatchAt(subs[a] \o rest, t, i, caps)]

MatchAt(items, t, i, caps) ==
  CASE kindOf(items) = "end" -> [ok |-> TRUE, end |-> i, caps |-> caps]
    [] takes(items, t, i) -> MatchAt(Tail(items), t, i + 1, caps)
    [] holds(items, t, i) -> MatchAt(Tail(items), t, i, caps)
    [] kindOf(items) = "open" ->
         MatchAt(Tail(items), t, i, [caps EXCEPT ![items[1].c] = <<i, i>>])
    [] kindOf(items) = "close" ->
         MatchAt(Tail(items), t, i,
                 [caps EXCEPT ![items[1].c] = <<caps[items[1].c][1], i>>])
    [] isClassStar(items) /\ items[1].lazy ->
         fewest(afterRun(items[1].sub[1].c, Tail(items), t, i, caps))
    [] isClassStar(items) /\ ~items[1].lazy ->
         most(afterRun(items[1].sub[1].c, Tail(items), t, i, caps))
    [] kindOf(items) = "star" /\ ~isClassStar(items) /\ items[1].lazy ->
         orElse(MatchAt(Tail(items), t, i, caps),
                MatchAt(items[1].sub \o items, t, i, caps))
    [] kindOf(items) = "star" /\ ~isClassStar(items) /\ ~items[1].lazy ->
         orElse(MatchAt(items[1].sub \o items, t, i, caps),
                MatchAt(Tail(items), t, i, caps))
    [] kindOf(items) = "opt" ->
         orElse(MatchAt(items[1].sub \o Tail(items), t, i, caps),
                MatchAt(Tail(items), t, i, caps))
    [] kindOf(items) = "alt" ->
         fewest(afterEach(items[1].sub, Tail(items), t, i, caps))
    [] OTHER -> NoMatch

\* the outcome of trying the pattern at each position from i on
attempts(re, t, i) == [j \in i..(Len(t) + 1) |-> MatchAt(re, t, j, NoCaps)]

\* the outcome at position s, with the position
matchFrom(rs, s) ==
  [ok |-> TRUE, start |-> s, end |-> rs[s].end, caps |-> rs[s].caps]

\* the leftmost position where the pattern matched
leftmost(rs) ==
  IF \A j \in DOMAIN rs : ~rs[j].ok THEN NoMatch
  ELSE matchFrom(rs, Least({j \in DOMAIN rs : rs[j].ok}))

\* text.match(re) for a pattern without the g flag: leftmost match, looked
\* for from position i on
SearchFrom(re, t, i) ==
  IF i > Len(t) + 1 THEN NoMatch ELSE leftmost(attempts(re, t, i))

NoSearch == [ok |-> FALSE, start |-> 0, end |-> 0, caps |-> <<>>]

SearchResult(r) == IF r.ok THEN r ELSE NoSearch

Search(re, t) == SearchResult(SearchFrom(re, t, 1))

\* re.test(text)
Test(re, t) == Search(re, t).ok

\* the text of capture group g of a successful match
Group(t, m, g) == SubSeq(t, m.caps[g][1], m.caps[g][2] - 1)

\* text.split(re): the pieces between the successive matches of re
RECURSIVE SplitFrom(_, _, _)

\* the pieces from position i on, r being the next match of re
SplitAt(re, t, i, r) ==
  IF ~r.ok \/ r.end = r.start
  THEN <<SubSeq(t, i, Len(t))>>
  ELSE <<SubSeq(t, i, r.start - 1)>> \o SplitFrom(re, t, r.end)

SplitFrom(re, t, i) == SplitAt(re, t, i, SearchFrom(re, t, i))

Split(re, t) == SplitFrom(re, t, 1)

\* text.replace(re, by) for a pattern without the g flag
ReplaceMatch(t, by, r) ==
  IF r.ok
  THEN SubSeq(t, 1, r.start - 1) \o by \o SubSeq(t, r.end, Len(t))
  ELSE t

ReplaceFirst(re, t, by) == ReplaceMatch(t, by, Search(re, t))

\* text.trim()
RECURSIVE trimStart(_)
trimStart(t) == IF t # <<>> /\ IsS(t[1]) THEN trimStart(Tail(t)) ELSE t

RECURSIVE trimEnd(_)
trimEnd(t) ==
  IF t # <<>> /\ IsS(t[Len(t)]) THEN trimEnd(SubSeq(t, 1, Len(t) - 1)) ELSE t

trim(t) == trimEnd(trimStart(t))

\* text.includes(a) for a one-character string a
includes(t, a) == \E i \in 1..Len(t) : t[i] = a

\* array.join(' ')
RECURSIVE join(_)
join(ts) ==
  IF ts = <<>> THEN <<>>
  ELSE IF Len(ts) = 1 THEN ts[1]
  ELSE ts[1] \o <<" ">> \o join(Tail(ts))

\* array.filter(p => p) : drop the empty strings
RECURSIVE nonEmpty(_)
nonEmpty(ts) ==
  IF ts = <<>> THEN <<>>
  ELSE (IF ts[1] = <<>> THEN <<>> ELSE <<ts[1]>>) \o nonEmpty(Tail(ts))

\* array.map(p => p.trim())
trimAll(ts) == [i \in 1..Len(ts) |-> trim(ts[i])]

\* array.flatMap over a list of lists
RECURSIVE flat(_)
flat(tss) == IF tss = <<>> THEN <<>> ELSE tss[1] \o flat(Tail(tss))

\* ------------------------------------------------------------------------
\* Lexicon
\* ------------------------------------------------------------------------

\* VERB_INDEX keys (generated/verbs.js): the verbs the repository's tests
\* rely on being in the table
Verbs ==
  { <<"prepare">>, <<"file">>, <<"inspect">>, <<"assist">>, <<"support">>,
    <<"collect">>, <<"report">>, <<"improve">>, <<"building">>,
    <<"loading">> }

\* PREPOSITIONS (generated/prepositions.js)
Prepositions ==
  { <<"of">>, <<"to">>, <<"f", "or">>, <<"with">>, <<"from">>, <<"in">>,
    <<"on">>, <<"at">>, <<"by">> }

\* CONJUNCTIONS keys
Conjunctions ==
  { <<"and">>, <<"but">>, <<"or">>, <<"n", "or">>, <<"f", "or">>, <<"so">>,
    <<"yet">>, <<"after">>, <<"although">>, <<"as">>, <<"because">>,
    <<"bef", "or", "e">>, <<"if">>, <<"once">>, <<"since">>, <<"than">>,
    <<"that">>, <<"though">>, <<"till">>, <<"unless">>, <<"until">>,
    <<"when">>, <<"where">>, <<"whereas">>, <<"wherever">>, <<"whether">>,
    <<"while">>, <<"both">>, <<"either">>, <<"neither">>, <<"not">> }

\* LexiconLoader.loadDeterminers
Determiners ==
  { <<"a">>, <<"an">>, <<"the">>, <<"this">>, <<"that">>, <<"these">>,
    <<"those">>, <<"my">>, <<"your">>, <<"his">>, <<"her">>, <<"its">>,
    <<"our">>, <<"their">>, <<"some">>, <<"any">>, <<"all">>, <<"each">>,
    <<"every">>, <<"no">>, <<"none">>, <<"few">>, <<"many">>, <<"much">>,
    <<"several">>, <<"more">>, <<"most">>, <<"less">>, <<"least">> }

\* CONCEPT_INDEX: key -> id, for the concepts whose words are in the
\* vocabulary (each concept is indexed by its lower-cased id, by its spaced
\* phrase and by "modifiers baseNoun").  An id is one word of several
\* chunks, one per word of the phrase, so that `${middle}${suffix}` and the
\* lower-cased id are the same sequence exactly when they are the same string
ConceptIndex ==
  { <<<<"mechanical", "equipment">>, <<"Mechanical", "Equipment">>>>,
    <<<<"mechanical", " ", "equipment">>, <<"Mechanical", "Equipment">>>>,
    <<<<"generation", "equipment">>, <<"Generation", "Equipment">>>>,
    <<<<"generation", " ", "equipment">>, <<"Generation", "Equipment">>>>,
    <<<<"quality", "control">>, <<"Quality", "Control">>>>,
    <<<<"quality", " ", "control">>, <<"Quality", "Control">>>>,
    <<<<"risk", "management">>, <<"Risk", "Management">>>>,
    <<<<"risk", " ", "management">>, <<"Risk", "Management">>>>,
    <<<<"research", "findings">>, <<"Research", "Findings">>>>,
    <<<<"research", " ", "findings">>, <<"Research", "Findings">>>>,
    <<<<"support", "services">>, <<"Support", "Services">>>>,
    <<<<"support", " ", "services">>, <<"Support", "Services">>>> }

ConceptKeys == {e[1] : e \in ConceptIndex}

\* LexiconLoader.load: the lexicon object; pronouns, adverbs, adjectives and
\* nouns are loaded empty
load ==
  [ verbs |-> Verbs, concepts |-> ConceptKeys, prepositions |-> Prepositions,
    conjunctions |-> Conjunctions, determiners |-> Determiners ]

\* GraphDLParser.lexicon, the object StatementParser and POSTagger hold too:
\* <<>> while undefined, <<the lexicon>> once initialize has assigned it
VARIABLE lexicon

\* lexicon.concepts.has(key)
conceptsHas(key) == key \in lexicon[1].concepts

\* lexicon.verbs.has(word)
verbsHas(word) == word \in lexicon[1].verbs

\* word.endsWith('ing') : the chunks of the vocabulary that end in "ing"
IngAtoms == {"keeping", "excavating", "loading", "making", "bring",
             "solving", "building"}

endsWithIng(t) == t # <<>> /\ toLowerCaseAtom(t[Len(t)]) \in IngAtoms

\* ------------------------------------------------------------------------
\* Patterns of the source
\* ------------------------------------------------------------------------

\* /\b(and|or)\b/i
ReAndOr == Wb \o AndOr \o Wb

\* /\bsuch as\b/i
ReSuchAs == Wb \o Lit("such") \o Lit(" ") \o Lit("as") \o Wb

\* /\bsuch\s+as\b/i
ReSuchSpAs == Wb \o Lit("such") \o Plus(S) \o Lit("as") \o Wb

\* /^(.+?)\s+such\s+as\s+(.+)$/i
ReSuchAsMatch ==
  Bol \o Cap(1, LazyPlus(Dot)) \o Plus(S) \o Lit("such") \o Plus(S)
      \o Lit("as") \o Plus(S) \o Cap(2, Plus(Dot)) \o Eol

\* /,\s*$/
ReTrailingComma == Lit(",") \o Star(S) \o Eol

\* /\s*,\s*(?:and\s+|or\s+)?|\s+and\s+|\s+or\s+/i
ReExamplesSplit ==
  Alt(<< Star(S) \o Lit(",") \o Star(S)
            \o Opt(Alt(<<Lit("and") \o Plus(S), Lit("or") \o Plus(S)>>)),
         Plus(S) \o Lit("and") \o Plus(S),
         Plus(S) \o Lit("or") \o Plus(S) >>)

\* /\s+/
ReSpaces == Plus(S)

\* /,\s*/
ReCommaSp == Lit(",") \o Star(S)

\* /\s*\/\s*/
ReSlashSp == Star(S) \o Lit("/") \o Star(S)

\* /^(.+?)\s+(and|or)\s+(.+)$/i
ReSimpleSplit ==
  Bol \o Cap(1, LazyPlus(Dot)) \o Plus(S) \o Cap(2, AndOr) \o Plus(S)
      \o Cap(3, Plus(Dot)) \o Eol

\* /^(.+?),\s*(.+?),?\s*(and|or)\s+(.+)$/i
ReOxfordComma ==
  Bol \o Cap(1, LazyPlus(Dot)) \o Lit(",") \o Star(S)
      \o Cap(2, LazyPlus(Dot)) \o Opt(Lit(",")) \o Star(S) \o Cap(3, AndOr)
      \o Plus(S) \o Cap(4, Plus(Dot)) \o Eol

\* /^both\s+/i
ReBoth == Bol \o Lit("both") \o Plus(S)

\* /^(.+?)\s+(and|or)\s+([^\s]+)\s+(.+)$/i
ReSharedSuffix ==
  Bol \o Cap(1, LazyPlus(Dot)) \o Plus(S) \o Cap(2, AndOr) \o Plus(S)
      \o Cap(3, Plus(NS)) \o Plus(S) \o Cap(4, Plus(Dot)) \o Eol

\* /\b(and|or)\b/i.test(phrase)
hasAndOr(t) == Test(ReAndOr, t)

\* ------------------------------------------------------------------------
\* StatementParser: phrase-level expansion
\* ------------------------------------------------------------------------

needsExpansion(phrase) ==
  \/ hasAndOr(phrase)
  \/ includes(phrase, ",")
  \/ includes(phrase, "/")
  \/ Test(ReSuchAs, phrase)

\* the such-as rule once the regex has been tried
expandSuchAsParts(phrase, cleanPrefix, parts) ==
  IF Len(parts) >= 1 /\ cleanPrefix # <<>>
  THEN <<cleanPrefix>> \o parts
  ELSE <<phrase>>

expandSuchAsMatch(phrase, match) ==
  IF ~match.ok THEN <<phrase>>
  ELSE expandSuchAsParts(
         phrase,
         trim(ReplaceFirst(ReTrailingComma, Group(phrase, match, 1), <<>>)),
         nonEmpty(trimAll(Split(ReExamplesSplit, Group(phrase, match, 2)))))

expandSuchAs(phrase) == expandSuchAsMatch(phrase, Search(ReSuchAsMatch, phrase))

connectorPhrases ==
  << <<"concerned", " ", "with">>, <<"related", " ", "to">>,
     <<"involved", " ", "in">>, <<"responsible", " ", "f", "or">>,
     <<"engaged", " ", "in">>, <<"associated", " ", "with">>,
     <<"dealing", " ", "with">>, <<"focused", " ", "on">>,
     <<"pertaining", " ", "to">>, <<"regarding">> >>

\* the first of the positions where a text was found, 0 when none
firstOf(found) == IF found = {} THEN 0 ELSE Least(found)

\* text.indexOf(pat), 1-based; 0 when absent
indexOf(t, pat) ==
  firstOf({i \in 1..(Len(t) - Len(pat) + 1) :
             SubSeq(t, i, i + Len(pat) - 1) = pat})

\* [match[1].trim(), match[3].trim()]
conjParts(phrase, match) ==
  <<trim(Group(phrase, match, 1)), trim(Group(phrase, match, 3))>>

\* [first.trim(), ...middle.split(/,\s*/).map(trim).filter(p => p), last.trim()]
oxfordParts(phrase, match) ==
  <<trim(Group(phrase, match, 1))>>
    \o nonEmpty(trimAll(Split(ReCommaSp, Group(phrase, match, 2))))
    \o <<trim(Group(phrase, match, 4))>>

expandSimpleConjunctionMatch(phrase, match) ==
  IF match.ok THEN conjParts(phrase, match) ELSE <<phrase>>

expandSimpleConjunction(phrase) ==
  expandSimpleConjunctionMatch(phrase, Search(ReSimpleSplit, phrase))

expandObjectListConj(phrase, conjMatch) ==
  IF conjMatch.ok THEN conjParts(phrase, conjMatch)
  ELSE IF includes(phrase, ",")
  THEN nonEmpty(trimAll(Split(ReCommaSp, phrase)))
  ELSE <<phrase>>

expandObjectListOxford(phrase, oxfordMatch) ==
  IF oxfordMatch.ok THEN oxfordParts(phrase, oxfordMatch)
  ELSE expandObjectListConj(phrase, Search(ReSimpleSplit, phrase))

expandObjectList(phrase) ==
  expandObjectListOxford(phrase, Search(ReOxfordComma, phrase))

\* the cartesian product of expandNestedConjunction, subject-major
product(subjects, connector, objects) ==
  [n \in 1..(Len(subjects) * Len(objects)) |->
     subjects[((n - 1) \div Len(objects)) + 1] \o <<" ">> \o connector
       \o <<" ">> \o objects[((n - 1) % Len(objects)) + 1]]

\* what one turn of the loop over connectorPhrases returns; <<>> when the
\* loop goes on to the next connector
nestedProduct(connector, subjects, objects) ==
  IF Len(subjects) > 1 \/ Len(objects) > 1
  THEN product(subjects, connector, objects)
  ELSE <<>>

nestedParts(connector, subjectPart, objectPart) ==
  IF \/ ~hasAndOr(subjectPart)
     \/ includes(subjectPart, ",")
     \/ ~includes(objectPart, ",") /\ ~hasAndOr(objectPart)
  THEN <<>>
  ELSE nestedProduct(connector, expandSimpleConjunction(subjectPart),
                     expandObjectList(objectPart))

nestedAt(phrase, connector, connectorIndex) ==
  IF connectorIndex = 0 THEN <<>>
  ELSE nestedParts(
         connector,
         trim(SubSeq(phrase, 1, connectorIndex - 1)),
         trim(SubSeq(phrase, connectorIndex + Len(connector), Len(phrase))))

\* the turns of the loop, one per connector
nestedTurns(phrase) ==
  [k \in DOMAIN connectorPhrases |->
     nestedAt(phrase, connectorPhrases[k],
              indexOf(toLowerCase(phrase), connectorPhrases[k]))]

\* the first turn that returns, [phrase] when none does
nestedReturn(phrase, turns) ==
  IF \A k \in DOMAIN turns : turns[k] = <<>> THEN <<phrase>>
  ELSE turns[Least({k \in DOMAIN turns : turns[k] # <<>>})]

expandNestedConjunction(phrase) == nestedReturn(phrase, nestedTurns(phrase))

compoundPhrases ==
  { <<"record", " ", "keeping">>, <<"record", "-", "keeping">>,
    <<"policy", " ", "changes">>, <<"cost", " ", "reduction">>,
    <<"quality", " ", "control">>, <<"data", " ", "management">>,
    <<"risk", " ", "management">>, <<"project", " ", "management">>,
    <<"change", " ", "management">>, <<"time", " ", "management">>,
    <<"resource", " ", "allocation">>, <<"budget", " ", "allocation">>,
    <<"staff", " ", "development">>, <<"team", " ", "building">>,
    <<"problem", " ", "solving">>, <<"decision", " ", "making">>,
    <<"policy", " ", "making">>, <<"rule", " ", "making">>,
    <<"law", " ", "enforcement">>, <<"code", " ", "enforcement">> }

\* /^(assign|implement|develop|manage|create|ensure)$/i
businessVerbs ==
  { <<"assign">>, <<"implement">>, <<"develop">>, <<"manage">>, <<"create">>,
    <<"ensure">> }

verbPatterns ==
  { <<"assign">>, <<"delegate">>, <<"implement">>, <<"develop">>,
    <<"manage">>, <<"create">>, <<"ensure">>, <<"maintain">>, <<"review">>,
    <<"approve">>, <<"coordinate">>, <<"direct">>, <<"evaluate">>,
    <<"identify">>, <<"analyze">>, <<"perform">>, <<"conduct">>,
    <<"establish">>, <<"prepare">>, <<"provide">>, <<"support">>,
    <<"monit", "or">>, <<"report">>, <<"document">>, <<"communicate">>,
    <<"facilitate">>, <<"generate">>, <<"produce">>, <<"process">>,
    <<"recommend">>, <<"select">>, <<"determine">>, <<"define">>,
    <<"design">>, <<"plan">>, <<"organize">>, <<"lead">>, <<"guide">>,
    <<"handle">>, <<"negotiate">>, <<"resolve">>, <<"validate">>,
    <<"verify">>, <<"test">>, <<"train">>, <<"assess">>, <<"measure">>,
    <<"inspect">>, <<"investigate">>, <<"research">>, <<"execute">>,
    <<"deliver">> }

businessSuffixes ==
  { <<"changes">>, <<"reduction">>, <<"allocation">>, <<"management">>,
    <<"development">>, <<"building">>, <<"solving">>, <<"making">>,
    <<"enforcement">>, <<"control">>, <<"planning">>, <<"analysis">>,
    <<"assessment">>, <<"evaluation">>, <<"implementation">> }

\* the three tests of isCompoundPhrase on the lower-cased words
isCompoundLower(suffix, middleLower, suffixLower) ==
  \/ (middleLower \o <<" ">> \o suffixLower) \in compoundPhrases
  \/ /\ endsWithIng(suffix)
     /\ middleLower \notin businessVerbs
     /\ middleLower \notin verbPatterns
  \/ /\ suffixLower \in businessSuffixes
     /\ middleLower \notin businessVerbs

\* no phrase is taken for a compound
isCompoundPhraseNever(middle, suffix) == FALSE

isCompoundPhrase(middle, suffix) ==
  isCompoundLower(suffix, toLowerCase(middle), toLowerCase(suffix))

\* Math.min(...indices), Math.max(...indices)
minOf(indices) == CHOOSE i \in indices : \A j \in indices : i <= j
maxOf(indices) == CHOOSE i \in indices : \A j \in indices : i >= j

\* [prefix, alt, suffix] without the empty ones, joined by a space
slashBuild(prefix, alt, suffix) ==
  join((IF prefix # <<>> THEN <<prefix>> ELSE <<>>) \o <<alt>>
         \o (IF suffix # <<>> THEN <<suffix>> ELSE <<>>))

slashAlternatives(phrase, prefix, suffix, alts) ==
  IF Len(alts) <= 1 THEN <<phrase>>
  ELSE [i \in 1..Len(alts) |-> slashBuild(prefix, alts[i], suffix)]

slashSpan(phrase, words, firstSlashIdx, lastSlashIdx) ==
  slashAlternatives(
    phrase,
    join(SubSeq(words, 1, firstSlashIdx - 1)),
    join(SubSeq(words, lastSlashIdx + 1, Len(words))),
    nonEmpty(trimAll(Split(ReSlashSp,
                           join(SubSeq(words, firstSlashIdx, lastSlashIdx))))))

slashIndices(phrase, words, slashWordIndices) ==
  IF slashWordIndices = {} THEN <<phrase>>
  ELSE slashSpan(phrase, words, minOf(slashWordIndices),
                 maxOf(slashWordIndices))

slashWords(phrase, words) ==
  slashIndices(phrase, words,
               {i \in 1..Len(words) : includes(words[i], "/")})

expandSlashPattern(phrase) == slashWords(phrase, Split(ReSpaces, phrase))

\* the last element of an array of words, lower-cased
lastLower(words) == toLowerCase(words[Len(words)])

\* the last whitespace-separated word of l, lower-cased ('' when none)
lastWordLower(l) == lastLower(Split(ReSpaces, trim(l)))

\* the seven determiners the phrase-level shared-suffix rule looks for
sharedSuffixDeterminers ==
  { <<"the">>, <<"a">>, <<"an">>, <<"this">>, <<"that">>, <<"these">>,
    <<"those">> }

\* results.push(l or `${l} ${suffix}`) for each l
withSuffix(ls, suffix, checkLast) ==
  [i \in 1..Len(ls) |->
     IF checkLast /\ lastWordLower(ls[i]) = toLowerCase(suffix)
     THEN ls[i]
     ELSE ls[i] \o <<" ">> \o suffix]

\* leftWords.length === 1 && verbs.has(leftWords[leftWords.length-1])
isSingleVerb(leftWords) ==
  Len(leftWords) = 1 /\ verbsHas(lastLower(leftWords))

isLeftVerb(left) == isSingleVerb(Split(ReSpaces, trim(left)))

\* none of the guards of the phrase-level shared-suffix rule holds
sharedSuffixApplies(left, middleLower, middle, suffix) ==
  /\ middleLower \notin sharedSuffixDeterminers
  /\ ~isCompoundPhrase(middle, suffix)
  /\ ~(verbsHas(middleLower) /\ ~isLeftVerb(left))

RECURSIVE expandPhrase(_)
RECURSIVE expandAll(_)

\* parts.flatMap(p => this.expandPhrase(p))
expandAll(parts) ==
  IF parts = <<>> THEN <<>>
  ELSE expandPhrase(parts[1]) \o expandAll(Tail(parts))

\* expandPhrase from the simple-conjunction rule on
expandPhraseSimple(phrase, simpleSplitMatch) ==
  IF simpleSplitMatch.ok
  THEN expandPhrase(Group(phrase, simpleSplitMatch, 1))
         \o expandPhrase(Group(phrase, simpleSplitMatch, 3))
  ELSE <<phrase>>

\* expandPhrase from the shared-suffix rule on
expandPhraseShared(phrase, sharedSuffixMatch) ==
  IF /\ sharedSuffixMatch.ok
     /\ sharedSuffixApplies(Group(phrase, sharedSuffixMatch, 1),
                            toLowerCase(Group(phrase, sharedSuffixMatch, 3)),
                            Group(phrase, sharedSuffixMatch, 3),
                            Group(phrase, sharedSuffixMatch, 4))
  THEN withSuffix(expandPhrase(Group(phrase, sharedSuffixMatch, 1)),
                  Group(phrase, sharedSuffixMatch, 4), TRUE)
         \o withSuffix(expandPhrase(Group(phrase, sharedSuffixMatch, 3)),
                       Group(phrase, sharedSuffixMatch, 4), FALSE)
  ELSE expandPhraseSimple(phrase, Search(ReSimpleSplit, phrase))

\* the comma-list rule without the return of a phrase that has no and/or
expandPhraseCommasNoReturn(phrase, commaParts) ==
  IF includes(phrase, ",") /\ ~hasAndOr(phrase) /\ Len(commaParts) > 1
  THEN expandAll(commaParts)
  ELSE IF Test(ReBoth, phrase)
  THEN expandPhrase(ReplaceFirst(ReBoth, phrase, <<>>))
  ELSE expandPhraseShared(phrase, Search(ReSharedSuffix, phrase))

\* expandPhrase from the comma-list rule on
expandPhraseCommas(phrase, commaParts) ==
  IF includes(phrase, ",") /\ ~hasAndOr(phrase) /\ Len(commaParts) > 1
  THEN expandAll(commaParts)
  ELSE IF ~hasAndOr(phrase) THEN <<phrase>>
  ELSE IF Test(ReBoth, phrase)
  THEN expandPhrase(ReplaceFirst(ReBoth, phrase, <<>>))
  ELSE expandPhraseShared(phrase, Search(ReSharedSuffix, phrase))

\* expandPhrase from the Oxford-comma rule on
expandPhraseOxford(phrase, oxfordCommaMatch) ==
  IF oxfordCommaMatch.ok
  THEN expandAll(oxfordParts(phrase, oxfordCommaMatch))
  ELSE expandPhraseCommas(phrase, nonEmpty(trimAll(Split(ReCommaSp, phrase))))

\* expandPhrase from the nested-conjunction rule on
expandPhraseNested(phrase, nestedConjunctionResult) ==
  IF Len(nestedConjunctionResult) > 1
  THEN nestedConjunctionResult
  ELSE expandPhraseOxford(phrase, Search(ReOxfordComma, phrase))

\* expandPhrase without its slash rule
expandPhraseSlashSkipped(phrase, slashExpanded) ==
  expandPhraseNested(phrase, expandNestedConjunction(phrase))

\* expandPhrase from the slash rule on
expandPhraseSlash(phrase, slashExpanded) ==
  IF includes(phrase, "/") /\ ~hasAndOr(phrase) /\ Len(slashExpanded) > 1
  THEN expandAll(slashExpanded)
  ELSE expandPhraseNested(phrase, expandNestedConjunction(phrase))

\* expandPhrase from the such-as rule on
expandPhraseSuchAs(phrase, suchAsExpanded) ==
  IF /\ Test(ReSuchSpAs, phrase)
     /\ Len(suchAsExpanded) >= 1
     /\ (Len(suchAsExpanded) > 1 \/ suchAsExpanded[1] # phrase)
  THEN expandAll(suchAsExpanded)
  ELSE expandPhraseSlash(phrase, expandSlashPattern(phrase))

expandPhrase(phrase) ==
  IF phrase = <<>> THEN <<phrase>>
  ELSE expandPhraseSuchAs(phrase, expandSuchAs(phrase))

\* ------------------------------------------------------------------------
\* StatementParser: statement-anchored expansion
\* ------------------------------------------------------------------------

\* of|to|for|with|from|in|on|at|by
RePreps ==
  Alt(<< Lit("of"), Lit("to"), Lit("f") \o Lit("or"), Lit("with"),
         Lit("from"), Lit("in"), Lit("on"), Lit("at"), Lit("by") >>)

\* /^(\w+)\s+(.+?)\s+(of|to|for|with|from|in|on|at|by)\s+(.+)$/i
ReVerbObjectComplement ==
  Bol \o Cap(1, Plus(W)) \o Plus(S) \o Cap(2, LazyPlus(Dot)) \o Plus(S)
      \o Cap(3, RePreps) \o Plus(S) \o Cap(4, Plus(Dot)) \o Eol

\* /^(\w+)\s+(.+?,\s*.+)$/i
ReVerbCommaList ==
  Bol \o Cap(1, Plus(W)) \o Plus(S)
      \o Cap(2, LazyPlus(Dot) \o Lit(",") \o Star(S) \o Plus(Dot)) \o Eol

\* /^(\w+)\s+(.+)$/i
ReVerbSlash ==
  Bol \o Cap(1, Plus(W)) \o Plus(S) \o Cap(2, Plus(Dot)) \o Eol

\* /^(\w+)\s+(.+?)\s+(and|or)\s+([^\s]+)\s+(.+)$/i
ReVerbWithSharedSuffix ==
  Bol \o Cap(1, Plus(W)) \o Plus(S) \o Cap(2, LazyPlus(Dot)) \o Plus(S)
      \o Cap(3, AndOr) \o Plus(S) \o Cap(4, Plus(NS)) \o Plus(S)
      \o Cap(5, Plus(Dot)) \o Eol

\* /^(\w+)\s+(.+?)\s+(and|or)\s+(.+)$/i
ReSimpleVerbConjunction ==
  Bol \o Cap(1, Plus(W)) \o Plus(S) \o Cap(2, LazyPlus(Dot)) \o Plus(S)
      \o Cap(3, AndOr) \o Plus(S) \o Cap(4, Plus(Dot)) \o Eol

\* /^(\w+)\s+(.+?)\s+such\s+as\s+(.+)$/i
ReVerbSuchAs ==
  Bol \o Cap(1, Plus(W)) \o Plus(S) \o Cap(2, LazyPlus(Dot)) \o Plus(S)
      \o Lit("such") \o Plus(S) \o Lit("as") \o Plus(S) \o Cap(3, Plus(Dot))
      \o Eol

\* text.replace(/-/g, by)
RECURSIVE replaceHyphens(_, _)
replaceHyphens(t, by) ==
  IF t = <<>> THEN <<>>
  ELSE (IF t[1] = "-" THEN by ELSE <<t[1]>>) \o replaceHyphens(Tail(t), by)

\* word.endsWith('term') || endsWith('time') || endsWith('level'): the
\* chunks of the vocabulary with one of these endings
ModifierEndAtoms == {"term", "time", "level"}

isMiddleModifier(middle) ==
  \/ includes(middle, "-")
  \/ toLowerCaseAtom(middle[Len(middle)]) \in ModifierEndAtoms

\* objs.map(o => `${verb} ${o}`)
withVerb(verb, objs) == [i \in 1..Len(objs) |-> verb \o <<" ">> \o objs[i]]

\* results.push(`${verb} ${o} ${prep} ${c}`), o outer, c inner
objectComplementProduct(verb, os, prep, cs) ==
  [n \in 1..(Len(os) * Len(cs)) |->
     verb \o <<" ">> \o os[((n - 1) \div Len(cs)) + 1] \o <<" ">> \o prep
       \o <<" ">> \o cs[((n - 1) % Len(cs)) + 1]]

RECURSIVE expandRawText(_)
RECURSIVE expandRawAll(_)

\* for (const result of results) expandedResults.push(...expandRawText(result))
expandRawAll(results) ==
  IF results = <<>> THEN <<>>
  ELSE expandRawText(results[1]) \o expandRawAll(Tail(results))

\* needsExpansion(phrase) ? expandPhrase(phrase) : [phrase]
variations(phrase) ==
  IF needsExpansion(phrase) THEN expandPhrase(phrase) ELSE <<phrase>>

\* expandRawText: the such-as rule, the last one
expandRawExamples(text, verb, expandedExamples) ==
  IF Len(expandedExamples) > 1 THEN withVerb(verb, expandedExamples)
  ELSE <<text>>

expandRawSuchAs(text, suchAsMatch) ==
  IF suchAsMatch.ok /\ verbsHas(toLowerCase(Group(text, suchAsMatch, 1)))
  THEN expandRawExamples(
         text, Group(text, suchAsMatch, 1),
         expandSuchAs(Group(text, suchAsMatch, 2)
                        \o <<" ", "such", " ", "as", " ">>
                        \o Group(text, suchAsMatch, 3)))
  ELSE <<text>>

\* expandRawText from the simple verb conjunction rule on
expandRawSimple(text, simpleVerbConjunction) ==
  IF /\ simpleVerbConjunction.ok
     /\ verbsHas(toLowerCase(Group(text, simpleVerbConjunction, 1)))
  THEN withVerb(Group(text, simpleVerbConjunction, 1),
                expandPhrase(Group(text, simpleVerbConjunction, 2)))
         \o withVerb(Group(text, simpleVerbConjunction, 1),
                     expandPhrase(Group(text, simpleVerbConjunction, 4)))
  ELSE expandRawSuchAs(text, Search(ReVerbSuchAs, text))

\* '<middle> <suffix>' is a key of the concept index
isCompoundConcept(middle, suffix) ==
  \/ conceptsHas(replaceHyphens(toLowerCase(middle \o <<" ">> \o suffix),
                                <<" ">>))
  \/ conceptsHas(replaceHyphens(toLowerCase(middle \o suffix), <<>>))
  \/ conceptsHas(toLowerCase(middle \o <<"-">> \o suffix))

\* the verb is in the lexicon and no guard of the shared-suffix rule holds
rawSharedSuffixApplies(verb, left, middle, suffix) ==
  /\ verbsHas(toLowerCase(verb))
  /\ ~isCompoundConcept(middle, suffix)
  /\ ~isMiddleModifier(middle)
  /\ ~isCompoundPhrase(middle, suffix)
  /\ ~(verbsHas(toLowerCase(middle)) /\ ~isLeftVerb(left))

rawSharedSuffixResults(verb, left, middle, suffix) ==
  withVerb(verb, withSuffix(expandPhrase(left), suffix, TRUE))
    \o withVerb(verb, withSuffix(expandPhrase(middle), suffix, FALSE))

\* the results, expanded again when the suffix holds a pattern
expandRawResults(suffix, results) ==
  IF needsExpansion(suffix) THEN expandRawAll(results) ELSE results

\* expandRawText from the shared-suffix rule on
expandRawShared(text, verbWithSharedSuffix) ==
  IF /\ verbWithSharedSuffix.ok
     /\ rawSharedSuffixApplies(Group(text, verbWithSharedSuffix, 1),
                               Group(text, verbWithSharedSuffix, 2),
                               Group(text, verbWithSharedSuffix, 4),
                               Group(text, verbWithSharedSuffix, 5))
  THEN expandRawResults(
         Group(text, verbWithSharedSuffix, 5),
         rawSharedSuffixResults(Group(text, verbWithSharedSuffix, 1),
                                Group(text, verbWithSharedSuffix, 2),
                                Group(text, verbWithSharedSuffix, 4),
                                Group(text, verbWithSharedSuffix, 5)))
  ELSE expandRawSimple(text, Search(ReSimpleVerbConjunction, text))

\* expandRawText from the slash rule on; slashExpanded is empty when the
\* rule's conditions do not hold
expandRawAlternatives(text, verbSlashMatch, slashExpanded) ==
  IF Len(slashExpanded) > 1
  THEN withVerb(Group(text, verbSlashMatch, 1), slashExpanded)
  ELSE expandRawShared(text, Search(ReVerbWithSharedSuffix, text))

expandRawSlash(text, verbSlashMatch) ==
  expandRawAlternatives(
    text, verbSlashMatch,
    IF /\ includes(text, "/") /\ ~hasAndOr(text)
       /\ verbSlashMatch.ok
       /\ verbsHas(toLowerCase(Group(text, verbSlashMatch, 1)))
    THEN expandSlashPattern(Group(text, verbSlashMatch, 2))
    ELSE <<>>)

\* expandRawText from the verb + comma list rule on; objectVariations is
\* empty when the rule's conditions do not hold
expandRawObjects(text, verbCommaListMatch, objectVariations) ==
  IF Len(objectVariations) > 1
  THEN withVerb(Group(text, verbCommaListMatch, 1), objectVariations)
  ELSE expandRawSlash(text, Search(ReVerbSlash, text))

expandRawCommaList(text, verbCommaListMatch) ==
  expandRawObjects(
    text, verbCommaListMatch,
    IF /\ verbCommaListMatch.ok
       /\ verbsHas(toLowerCase(Group(text, verbCommaListMatch, 1)))
    THEN expandPhrase(Group(text, verbCommaListMatch, 2))
    ELSE <<>>)

\* the first rule with the complement left as it is written
expandRawComplementObjectOnly(text, verbObjectComplement) ==
  IF /\ verbObjectComplement.ok
     /\ verbsHas(toLowerCase(Group(text, verbObjectComplement, 1)))
  THEN objectComplementProduct(
         Group(text, verbObjectComplement, 1),
         variations(Group(text, verbObjectComplement, 2)),
         Group(text, verbObjectComplement, 3),
         <<Group(text, verbObjectComplement, 4)>>)
  ELSE expandRawCommaList(text, Search(ReVerbCommaList, text))

\* expandRawText from its first rule, verb + object + preposition +
\* complement, on
expandRawComplement(text, verbObjectComplement) ==
  IF /\ verbObjectComplement.ok
     /\ verbsHas(toLowerCase(Group(text, verbObjectComplement, 1)))
  THEN objectComplementProduct(
         Group(text, verbObjectComplement, 1),
         variations(Group(text, verbObjectComplement, 2)),
         Group(text, verbObjectComplement, 3),
         variations(Group(text, verbObjectComplement, 4)))
  ELSE expandRawCommaList(text, Search(ReVerbCommaList, text))

expandRawText(text) ==
  expandRawComplement(text, Search(ReVerbObjectComplement, text))

\* ------------------------------------------------------------------------
\* StatementParser: the recursive calls of the two expanders
\* ------------------------------------------------------------------------

\* text.length
RECURSIVE length(_)
length(t) == IF t = <<>> THEN 0 ELSE Len(t[1]) + length(Tail(t))

\* the 'both' rule hands the phrase on with 'both' left in place
bothCallsUnstripped(phrase) == <<phrase>>

\* this.expandPhrase(phrase.replace(/^both\s+/i, ''))
bothCalls(phrase) == <<ReplaceFirst(ReBoth, phrase, <<>>)>>

\* the phrases the shared-suffix rule, else the simple-conjunction rule, of
\* expandPhrase hands to expandPhrase
sharedSuffixCalls(phrase, sharedSuffixMatch, simpleSplitMatch) ==
  IF /\ sharedSuffixMatch.ok
     /\ sharedSuffixApplies(Group(phrase, sharedSuffixMatch, 1),
                            toLowerCase(Group(phrase, sharedSuffixMatch, 3)),
                            Group(phrase, sharedSuffixMatch, 3),
                            Group(phrase, sharedSuffixMatch, 4))
  THEN << Group(phrase, sharedSuffixMatch, 1),
          Group(phrase, sharedSuffixMatch, 3) >>
  ELSE IF simpleSplitMatch.ok
  THEN << Group(phrase, simpleSplitMatch, 1),
          Group(phrase, simpleSplitMatch, 3) >>
  ELSE <<>>

\* the phrases expandPhrase hands to expandPhrase from the Oxford-comma
\* rule on
listCalls(phrase, oxfordCommaMatch, commaParts) ==
  IF oxfordCommaMatch.ok THEN oxfordParts(phrase, oxfordCommaMatch)
  ELSE IF includes(phrase, ",") /\ ~hasAndOr(phrase) /\ Len(commaParts) > 1
  THEN commaParts
  ELSE IF ~hasAndOr(phrase) THEN <<>>
  ELSE IF Test(ReBoth, phrase) THEN bothCalls(phrase)
  ELSE sharedSuffixCalls(phrase, Search(ReSharedSuffix, phrase),
                         Search(ReSimpleSplit, phrase))

\* the phrases expandPhrase hands to expandPhrase, the such-as rule first
expandPhraseCallsFrom(phrase, suchAsExpanded, slashExpanded) ==
  IF /\ Test(ReSuchSpAs, phrase)
     /\ Len(suchAsExpanded) >= 1
     /\ (Len(suchAsExpanded) > 1 \/ suchAsExpanded[1] # phrase)
  THEN suchAsExpanded
  ELSE IF includes(phrase, "/") /\ ~hasAndOr(phrase) /\ Len(slashExpanded) > 1
  THEN slashExpanded
  ELSE IF Len(expandNestedConjunction(phrase)) > 1 THEN <<>>
  ELSE listCalls(phrase, Search(ReOxfordComma, phrase),
                 nonEmpty(trimAll(Split(ReCommaSp, phrase))))

\* the argument of every call of expandPhrase that expandPhrase(phrase)
\* makes itself
expandPhraseCalls(phrase) ==
  IF phrase = <<>> THEN <<>>
  ELSE expandPhraseCallsFrom(phrase, expandSuchAs(phrase),
                             expandSlashPattern(phrase))

\* the calls of one invocation of expandRawText: the phrases handed to
\* expandPhrase and the texts handed to expandRawText
Calls(phrases, texts) == [phrases |-> phrases, texts |-> texts]

\* needsExpansion(phrase) ? this.expandPhrase(phrase) : [phrase]
variationCalls(phrase) == IF needsExpansion(phrase) THEN <<phrase>> ELSE <<>>

\* the calls of the shared-suffix rule, else the simple-conjunction rule, of
\* expandRawText
rawSharedCalls(text, verbWithSharedSuffix, simpleVerbConjunction) ==
  IF /\ verbWithSharedSuffix.ok
     /\ rawSharedSuffixApplies(Group(text, verbWithSharedSuffix, 1),
                               Group(text, verbWithSharedSuffix, 2),
                               Group(text, verbWithSharedSuffix, 4),
                               Group(text, verbWithSharedSuffix, 5))
  THEN Calls(<< Group(text, verbWithSharedSuffix, 2),
                Group(text, verbWithSharedSuffix, 4) >>,
             IF needsExpansion(Group(text, verbWithSharedSuffix, 5))
             THEN rawSharedSuffixResults(Group(text, verbWithSharedSuffix, 1),
                                         Group(text, verbWithSharedSuffix, 2),
                                         Group(text, verbWithSharedSuffix, 4),
                                         Group(text, verbWithSharedSuffix, 5))
             ELSE <<>>)
  ELSE IF /\ simpleVerbConjunction.ok
          /\ verbsHas(toLowerCase(Group(text, simpleVerbConjunction, 1)))
  THEN Calls(<< Group(text, simpleVerbConjunction, 2),
                Group(text, simpleVerbConjunction, 4) >>, <<>>)
  ELSE Calls(<<>>, <<>>)

\* the calls from the slash rule on: the slash rule itself makes none
rawSlashCalls(text, verbSlashMatch) ==
  IF /\ includes(text, "/") /\ ~hasAndOr(text)
     /\ verbSlashMatch.ok
     /\ verbsHas(toLowerCase(Group(text, verbSlashMatch, 1)))
     /\ Len(expandSlashPattern(Group(text, verbSlashMatch, 2))) > 1
  THEN Calls(<<>>, <<>>)
  ELSE rawSharedCalls(text, Search(ReVerbWithSharedSuffix, text),
                      Search(ReSimpleVerbConjunction, text))

\* the calls of the rules after the verb + comma list rule, made when that
\* rule found one alternative only
afterCommaList(objectList, calls) ==
  Calls(<<objectList>> \o calls.phrases, calls.texts)

\* the calls from the verb + comma list rule on
rawCommaListCalls(text, verbCommaListMatch) ==
  IF /\ verbCommaListMatch.ok
     /\ verbsHas(toLowerCase(Group(text, verbCommaListMatch, 1)))
  THEN IF Len(expandPhrase(Group(text, verbCommaListMatch, 2))) > 1
       THEN Calls(<<Group(text, verbCommaListMatch, 2)>>, <<>>)
       ELSE afterCommaList(Group(text, verbCommaListMatch, 2),
                           rawSlashCalls(text, Search(ReVerbSlash, text)))
  ELSE rawSlashCalls(text, Search(ReVerbSlash, text))

expandRawTextCallsFrom(text, verbObjectComplement) ==
  IF /\ verbObjectComplement.ok
     /\ verbsHas(toLowerCase(Group(text, verbObjectComplement, 1)))
  THEN Calls(variationCalls(Group(text, verbObjectComplement, 4))
               \o variationCalls(Group(text, verbObjectComplement, 2)), <<>>)
  ELSE rawCommaListCalls(text, Search(ReVerbCommaList, text))

\* the argument of every call of expandPhrase and of expandRawText that
\* expandRawText(text) makes itself
expandRawTextCalls(text) ==
  expandRawTextCallsFrom(text, Search(ReVerbObjectComplement, text))

\* ------------------------------------------------------------------------
\* Concept normalizer, tokenizer, tagger, slot extractor
\* ------------------------------------------------------------------------

\* the entries of CONCEPT_INDEX sorted by phrase.length, longest first
\* (Array.prototype.sort is stable: ties keep the insertion order of the map)
conceptPhrases ==
  << <<<<"generation", " ", "equipment">>, <<"Generation", "Equipment">>>>,
     <<<<"mechanical", " ", "equipment">>, <<"Mechanical", "Equipment">>>>,
     <<<<"generation", "equipment">>, <<"Generation", "Equipment">>>>,
     <<<<"mechanical", "equipment">>, <<"Mechanical", "Equipment">>>>,
     <<<<"research", " ", "findings">>, <<"Research", "Findings">>>>,
     <<<<"research", "findings">>, <<"Research", "Findings">>>>,
     <<<<"support", " ", "services">>, <<"Support", "Services">>>>,
     <<<<"risk", " ", "management">>, <<"Risk", "Management">>>>,
     <<<<"quality", " ", "control">>, <<"Quality", "Control">>>>,
     <<<<"support", "services">>, <<"Support", "Services">>>>,
     <<<<"risk", "management">>, <<"Risk", "Management">>>>,
     <<<<"quality", "control">>, <<"Quality", "Control">>>> >>

\* the literal text of a pattern built with new RegExp(text, 'i')
RECURSIVE LitSeq(_)
LitSeq(t) ==
  IF t = <<>> THEN <<>> ELSE Lit(toLowerCaseAtom(t[1])) \o LitSeq(Tail(t))

\* text.replace(re, by) for a pattern with the g flag
RECURSIVE ReplaceAllFrom(_, _, _, _)

\* the text from position i on, r being the next match of re
ReplaceAllAt(re, t, by, i, r) ==
  IF ~r.ok \/ r.end = r.start THEN SubSeq(t, i, Len(t))
  ELSE SubSeq(t, i, r.start - 1) \o by \o ReplaceAllFrom(re, t, by, r.end)

ReplaceAllFrom(re, t, by, i) ==
  ReplaceAllAt(re, t, by, i, SearchFrom(re, t, i))

ReplaceAll(re, t, by) == ReplaceAllFrom(re, t, by, 1)

RECURSIVE normalizeFrom(_, _)

\* the word is one of the atoms of the text, whatever its case
occursIn(word, text) ==
  \E i \in DOMAIN text : toLowerCaseAtom(text[i]) = word

\* normalized.replace(regex, entry.id); a phrase whose first word is not in
\* the text is not found
replacePhrase(text, phrase, id) ==
  IF occursIn(phrase[1], text)
  THEN ReplaceAll(Wb \o LitSeq(phrase) \o Wb, text, id)
  ELSE text

\* the loop left at the first phrase that is found in the text
normalizeFromFirstFound(text, k) ==
  IF k > Len(conceptPhrases) THEN text
  ELSE IF Test(Wb \o LitSeq(conceptPhrases[k][1]) \o Wb, text)
  THEN ReplaceAll(Wb \o LitSeq(conceptPhrases[k][1]) \o Wb, text,
                  conceptPhrases[k][2])
  ELSE normalizeFrom(text, k + 1)

\* for (const { phrase, entry } of conceptPhrases), from the k-th entry on
\* (no phrase is found in the empty text)
normalizeFrom(text, k) ==
  IF k > Len(conceptPhrases) \/ text = <<>> THEN text
  ELSE normalizeFrom(
         replacePhrase(text, conceptPhrases[k][1], conceptPhrases[k][2]),
         k + 1)

normalizeConceptsInText(text) == normalizeFrom(text, 1)

\* the punctuation marks the tokenizer keeps: [.,;:\-\/()]
TokenPuncts == {".", ",", ";", ":", "-", "/", "(", ")"}

\* [a-z] : a chunk of lower-case letters
IsLowerChunk(a) == IsW(a) /\ ~StartsUpper(a)

\* the length of the longest run of atoms of t from position i on that
\* satisfy the test
RECURSIVE runOfW(_, _)
runOfW(t, i) == IF i <= Len(t) /\ IsW(t[i]) THEN 1 + runOfW(t, i + 1) ELSE 0

RECURSIVE runOfLower(_, _)
runOfLower(t, i) ==
  IF i <= Len(t) /\ IsLowerChunk(t[i]) THEN 1 + runOfLower(t, i + 1) ELSE 0

Token(text) == [text |-> text, normalized |-> toLowerCase(text), pos |-> ""]

\* /([a-zA-Z]+(?:'[a-z]+)?|[.,;:\-\/()])/g
RECURSIVE tokenizeFrom(_, _)

\* (?:'[a-z]+)? at position j: the letters after an apostrophe
apostropheRun(t, j) ==
  IF j <= Len(t) /\ t[j] = "'" THEN runOfLower(t, j + 1) ELSE 0

\* the length of a word of n letters followed by m letters after an
\* apostrophe
wordLength(n, m) == IF m > 0 THEN n + 1 + m ELSE n

wordLengthAt(t, i, n) == wordLength(n, apostropheRun(t, i + n))

tokenizeWord(t, i, len) ==
  <<Token(SubSeq(t, i, i + len - 1))>> \o tokenizeFrom(t, i + len)

tokenizeFrom(t, i) ==
  IF i > Len(t) THEN <<>>
  ELSE IF IsW(t[i])
  THEN tokenizeWord(t, i, wordLengthAt(t, i, runOfW(t, i)))
  ELSE IF t[i] \in TokenPuncts
  THEN <<Token(<<t[i]>>)>> \o tokenizeFrom(t, i + 1)
  ELSE tokenizeFrom(t, i + 1)

tokenize(text) == tokenizeFrom(text, 1)

\* POSTagger.tag, first pass
firstPass(token) ==
  LET norm == token.normalized
  IN  IF norm \in lexicon[1].determiners THEN "DET"
      ELSE IF verbsHas(norm) THEN "VERB"
      ELSE IF norm \in lexicon[1].prepositions THEN "PREP"
      ELSE IF norm \in lexicon[1].conjunctions THEN "CONJ"
      ELSE IF StartsUpper(token.text[1]) THEN "NOUN"
      ELSE IF IsLowerChunk(token.text[1]) THEN "UNK-VERB"
      ELSE IF \E i \in 1..Len(token.text) : token.text[i] \in TokenPuncts
           THEN "PUNCT"
      ELSE "UNK"

\* POSTagger.tag, second pass: the loop body for index i (1-based), applied
\* to the tags as they stand when the loop reaches i
RECURSIVE secondPass(_, _)
secondPass(tagged, i) ==
  IF i > Len(tagged) - 1 THEN tagged
  ELSE LET current == tagged[i]
           next == tagged[i + 1]
           retag ==
             /\ current.pos = "VERB" /\ endsWithIng(current.normalized)
             /\ \/ next.pos = "NOUN"
                \/ next.pos = "UNK"
                \/ next.pos = "VERB" /\ ~endsWithIng(next.normalized)
                \/ StartsUpper(next.text[1])
       IN  secondPass(IF retag THEN [tagged EXCEPT ![i].pos = "NOUN"]
                      ELSE tagged, i + 1)

lastPass(tagged) ==
  IF /\ Len(tagged) > 0
     /\ tagged[Len(tagged)].pos = "VERB"
     /\ endsWithIng(tagged[Len(tagged)].normalized)
  THEN [tagged EXCEPT ![Len(tagged)].pos = "NOUN"]
  ELSE tagged

tag(tokens) ==
  lastPass(secondPass([i \in 1..Len(tokens) |->
                         [tokens[i] EXCEPT !.pos = firstPass(tokens[i])]], 1))

\* an optional field that is not set
None == <<>>

\* pos.includes('VERB')
isVerbTag(pos) == pos \in {"VERB", "UNK-VERB"}

\* the '.', ';' or ')' at which the object and the complement stop
isStop(tok) == tok.pos = "PUNCT" /\ tok.text \in {<<".">>, <<";">>, <<")">>}

\* the index of the first token from i on that satisfies the loop's exit
\* condition (Len + 1 when none does)
RECURSIVE skipToVerb(_, _)

\* the loop left only at a token tagged VERB
skipToVerbOnly(tagged, i) ==
  IF i <= Len(tagged) /\ tagged[i].pos # "VERB"
  THEN skipToVerb(tagged, i + 1) ELSE i

skipToVerb(tagged, i) ==
  IF i <= Len(tagged) /\ ~isVerbTag(tagged[i].pos)
  THEN skipToVerb(tagged, i + 1) ELSE i

RECURSIVE objectEnd(_, _)
\* the object loop without the stop at '.', ';' and ')'
objectEndAtPreposition(tagged, i) ==
  IF i <= Len(tagged) /\ tagged[i].pos # "PREP"
  THEN objectEnd(tagged, i + 1) ELSE i

objectEnd(tagged, i) ==
  IF i <= Len(tagged) /\ tagged[i].pos # "PREP" /\ ~isStop(tagged[i])
  THEN objectEnd(tagged, i + 1) ELSE i

RECURSIVE skipDeterminers(_, _)
skipDeterminers(tagged, i) ==
  IF i <= Len(tagged) /\ tagged[i].pos \in {"DET", "ADV", "ADJ"}
  THEN skipDeterminers(tagged, i + 1) ELSE i

RECURSIVE complementEnd(_, _)
complementEnd(tagged, i) ==
  IF i <= Len(tagged) /\ ~isStop(tagged[i])
  THEN complementEnd(tagged, i + 1) ELSE i

\* the texts of tagged[from..to-1] that pass the filter
RECURSIVE collect(_, _, _, _)
collect(tagged, from, to, dropCommas) ==
  IF from >= to THEN <<>>
  ELSE (IF tagged[from].pos # "DET"
           /\ ~(dropCommas /\ tagged[from].text = <<",">>)
        THEN <<tagged[from].text>> ELSE <<>>)
       \o collect(tagged, from + 1, to, dropCommas)

\* the texts of tagged[from..to-1] tagged ADV or ADJ
RECURSIVE collectModifiers(_, _, _)
collectModifiers(tagged, from, to) ==
  IF from >= to THEN <<>>
  ELSE (IF tagged[from].pos \in {"ADV", "ADJ"}
        THEN <<tagged[from].text>> ELSE <<>>)
       \o collectModifiers(tagged, from + 1, to)

\* the texts of the tokens tagged UNK
RECURSIVE unknownOf(_)
\* the filter without its exception for UNK-VERB
unknownOfVerbLike(tagged) ==
  IF tagged = <<>> THEN <<>>
  ELSE (IF tagged[1].pos \in {"UNK", "UNK-VERB"}
        THEN <<tagged[1].text>> ELSE <<>>)
       \o unknownOf(Tail(tagged))

unknownOf(tagged) ==
  IF tagged = <<>> THEN <<>>
  ELSE (IF tagged[1].pos = "UNK" THEN <<tagged[1].text>> ELSE <<>>)
       \o unknownOf(Tail(tagged))

\* the ParsedStatement parseSingle returns; confidence is kept in tenths:
\* 10 is 1.0
statement(text, predicate, objectTokens, preposition, complementTokens, modifiers, unknownWords) ==
  [ original |-> text,
    predicate |-> predicate,
    object |-> IF Len(objectTokens) > 0 THEN join(objectTokens) ELSE None,
    preposition |-> preposition,
    complement |->
      IF Len(complementTokens) > 0 THEN join(complementTokens) ELSE None,
    modifiers |-> modifiers,
    confidence |-> 10 - Len(unknownWords),
    unknownWords |-> unknownWords,
    hasConjunction |-> FALSE,
    expansions |-> <<>> ]

\* i after the predicate has been taken at iVerb, if there is one
afterVerb(tagged, iVerb) == IF iVerb <= Len(tagged) THEN iVerb + 1 ELSE iVerb

\* the object loop stopped at a preposition
hasPrep(tagged, iObjEnd) ==
  iObjEnd <= Len(tagged) /\ tagged[iObjEnd].pos = "PREP"

afterPrep(tagged, iObjEnd) ==
  IF hasPrep(tagged, iObjEnd) THEN iObjEnd + 1 ELSE iObjEnd

\* parseSingle from the complement on: the predicate is at iVerb, the object
\* ends before iObjEnd and the complement starts at iComp
parseComplement(text, tagged, iVerb, iObjEnd, iComp) ==
  statement(
    text,
    IF iVerb <= Len(tagged) THEN tagged[iVerb].text ELSE None,
    collect(tagged, afterVerb(tagged, iVerb), iObjEnd, TRUE),
    IF hasPrep(tagged, iObjEnd) THEN tagged[iObjEnd].normalized ELSE None,
    collect(tagged, iComp, complementEnd(tagged, iComp), FALSE),
    collectModifiers(tagged, 1, iVerb)
      \o collectModifiers(tagged, afterPrep(tagged, iObjEnd), iComp),
    unknownOf(tagged))

\* the complement taken from the token after the predicate on
parsePrepositionFromVerb(text, tagged, iVerb, iObjEnd) ==
  parseComplement(text, tagged, iVerb, iObjEnd, afterVerb(tagged, iVerb))

parsePreposition(text, tagged, iVerb, iObjEnd) ==
  parseComplement(text, tagged, iVerb, iObjEnd,
                  skipDeterminers(tagged, afterPrep(tagged, iObjEnd)))

parseObject(text, tagged, iVerb) ==
  parsePreposition(text, tagged, iVerb,
                   objectEnd(tagged, afterVerb(tagged, iVerb)))

parseTagged(text, tagged) == parseObject(text, tagged, skipToVerb(tagged, 1))

parseSingle(text) ==
  parseTagged(text, tag(tokenize(normalizeConceptsInText(text))))

\* the alternatives normalized before they are handed on
parseEachNormalized(texts) ==
  [i \in 1..Len(texts) |-> parseSingle(normalizeConceptsInText(texts[i]))]

\* texts.map(exp => this.parseSingle(exp))
parseEach(texts) == [i \in 1..Len(texts) |-> parseSingle(texts[i])]

\* ------------------------------------------------------------------------
\* StatementParser.parse
\* ------------------------------------------------------------------------

\* /^(\w+)\/(\w+)\s+(.+)$/i
ReSlashVerb ==
  Bol \o Cap(1, Plus(W)) \o Lit("/") \o Cap(2, Plus(W)) \o Plus(S)
      \o Cap(3, Plus(Dot)) \o Eol

\* /^(\w+,\s*\w+(?:,\s*\w+)*),?\s+(and|or)\s+(\w+)\s+(.+)$/i
ReOxfordVerbs ==
  Bol \o Cap(1, Plus(W) \o Lit(",") \o Star(S) \o Plus(W)
                  \o Star(Lit(",") \o Star(S) \o Plus(W)))
      \o Opt(Lit(",")) \o Plus(S) \o Cap(2, AndOr) \o Plus(S)
      \o Cap(3, Plus(W)) \o Plus(S) \o Cap(4, Plus(Dot)) \o Eol

\* /^(\w+)\s+(and|or)\s+(\w+)\s+(.+)$/i
ReVerbList ==
  Bol \o Cap(1, Plus(W)) \o Plus(S) \o Cap(2, AndOr) \o Plus(S)
      \o Cap(3, Plus(W)) \o Plus(S) \o Cap(4, Plus(Dot)) \o Eol

\* array.join(' and ')
RECURSIVE joinAnd(_)
joinAnd(ts) ==
  IF ts = <<>> THEN <<>>
  ELSE IF Len(ts) = 1 THEN ts[1]
  ELSE ts[1] \o <<" ", "and", " ">> \o joinAnd(Tail(ts))

\* a node that stands for a compound input
internalNode(text, predicate, object, expansions) ==
  [ original |-> text, predicate |-> predicate, object |-> object,
    preposition |-> None, complement |-> None, modifiers |-> <<>>,
    confidence |-> 10, unknownWords |-> <<>>, hasConjunction |-> TRUE,
    expansions |-> expansions ]

bothVerbs(text, verbListMatch) ==
  /\ verbListMatch.ok
  /\ verbsHas(toLowerCase(Group(text, verbListMatch, 1)))
  /\ verbsHas(toLowerCase(Group(text, verbListMatch, 3)))

isVerbConjunction(text) == bothVerbs(text, Search(ReVerbList, text))

\* { ...parsed, hasConjunction: true, expansions } whatever the expander gave
withExpansionsAlways(parsed, expansions) ==
  [parsed EXCEPT !.hasConjunction = TRUE,
                 !.expansions = parseEach(expansions)]

\* { ...parsed, hasConjunction: true, expansions } when the text expanded
withExpansions(parsed, expansions) ==
  IF Len(expansions) > 1
  THEN [parsed EXCEPT !.hasConjunction = TRUE,
                      !.expansions = parseEach(expansions)]
  ELSE parsed

hasExpandablePattern(text) ==
  \/ hasAndOr(text) \/ includes(text, ",") \/ includes(text, "/")
  \/ Test(ReSuchAs, text)

\* parse from the noun-conjunction rule on
parseNounConjunction(text) ==
  withExpansions(parseSingle(text),
                 IF hasExpandablePattern(text) /\ ~isVerbConjunction(text)
                 THEN expandRawText(text)
                 ELSE <<>>)

\* objectExpansions.map(exp => exp.replace(/^verb1\s+/i, `${verb2Capitalized} `))
verb2Expansions(verb1, verb2Capitalized, objectExpansions) ==
  [i \in 1..Len(objectExpansions) |->
     ReplaceFirst(Bol \o LitSeq(verb1) \o Plus(S), objectExpansions[i],
                  verb2Capitalized \o <<" ">>)]

\* the node of the two-verb rule with the statements of the first verb only
verbListNodeFirstVerb(text, verb1, conj, verb2, object, objectExpansions) ==
  internalNode(text, capitalize(verb1),
               conj \o <<" ">> \o verb2 \o <<" ">> \o object,
               parseEach(objectExpansions))

verbListNode(text, verb1, conj, verb2, object, objectExpansions) ==
  internalNode(text, capitalize(verb1),
               conj \o <<" ">> \o verb2 \o <<" ">> \o object,
               parseEach(objectExpansions)
                 \o parseEach(verb2Expansions(verb1, capitalize(verb2),
                                              objectExpansions)))

needsObjectExpansion(object) ==
  hasAndOr(object) \/ includes(object, ",") \/ includes(object, "/")

verbListExpansions(verb1, object) ==
  IF needsObjectExpansion(object)
  THEN expandRawText(verb1 \o <<" ">> \o object)
  ELSE <<verb1 \o <<" ">> \o object>>

\* parse from the two-verb rule on
parseVerbList(text, verbListMatch) ==
  IF bothVerbs(text, verbListMatch)
  THEN verbListNode(text, Group(text, verbListMatch, 1),
                    Group(text, verbListMatch, 2),
                    Group(text, verbListMatch, 3),
                    Group(text, verbListMatch, 4),
                    verbListExpansions(Group(text, verbListMatch, 1),
                                       Group(text, verbListMatch, 4)))
  ELSE parseNounConjunction(text)

\* `${this.capitalize(verb)} ${rest}`
oxfordVerbText(verb, rest) == capitalize(verb) \o <<" ">> \o rest

\* the branches of one verb of an Oxford-comma verb list; subExpansions is
\* empty when the remainder shows no pattern
oxfordVerbExpanded(verb, rest, subExpansions) ==
  IF Len(subExpansions) > 1
  THEN parseEach(subExpansions)
  ELSE <<parseSingle(oxfordVerbText(verb, rest))>>

oxfordVerbBranch(verb, rest) ==
  oxfordVerbExpanded(
    verb, rest,
    IF Test(ReSuchAs, rest) \/ hasAndOr(rest) \/ includes(rest, ",")
    THEN expandRawText(oxfordVerbText(verb, rest))
    ELSE <<>>)

RECURSIVE oxfordVerbBranches(_, _)
oxfordVerbBranches(verbs, rest) ==
  IF verbs = <<>> THEN <<>>
  ELSE oxfordVerbBranch(verbs[1], rest) \o oxfordVerbBranches(Tail(verbs), rest)

\* verbList.split(/,\s*/).concat([lastVerb])
oxfordVerbs(verbList, lastVerb) == Split(ReCommaSp, verbList) \o <<lastVerb>>

firstWordIsVerb(restWords) ==
  Len(restWords) > 0 /\ verbsHas(toLowerCase(restWords[1]))

restStartsWithVerb(rest) == firstWordIsVerb(Split(ReSpaces, trim(rest)))

\* firstIsVerb && !restStartsWithVerb && verbs.length >= 3
oxfordApplies(verbs, rest) ==
  /\ verbsHas(toLowerCase(verbs[1]))
  /\ ~restStartsWithVerb(rest)
  /\ Len(verbs) >= 3

oxfordNode(text, verbs, rest) ==
  internalNode(text, capitalize(verbs[1]),
               joinAnd(Tail(verbs)) \o <<" ">> \o rest,
               oxfordVerbBranches(verbs, rest))

\* parse from the Oxford-comma verb list rule on
parseOxfordVerbs(text, oxfordCommaMatch) ==
  IF /\ oxfordCommaMatch.ok
     /\ oxfordApplies(oxfordVerbs(Group(text, oxfordCommaMatch, 1),
                                  Group(text, oxfordCommaMatch, 3)),
                      Group(text, oxfordCommaMatch, 4))
  THEN oxfordNode(text,
                  oxfordVerbs(Group(text, oxfordCommaMatch, 1),
                              Group(text, oxfordCommaMatch, 3)),
                  Group(text, oxfordCommaMatch, 4))
  ELSE parseVerbList(text, Search(ReVerbList, text))

slashVerbNode(text, verb1, verb2, rest) ==
  internalNode(text, capitalize(verb1),
               <<"and", " ">> \o verb2 \o <<" ">> \o rest,
               << parseSingle(capitalize(verb1) \o <<" ">> \o rest),
                  parseSingle(capitalize(verb2) \o <<" ">> \o rest) >>)

\* parse from its first rule, the slash-separated verbs, on
parseSlashVerbs(text, slashVerbMatch) ==
  IF /\ slashVerbMatch.ok
     /\ verbsHas(toLowerCase(Group(text, slashVerbMatch, 1)))
     /\ verbsHas(toLowerCase(Group(text, slashVerbMatch, 2)))
  THEN slashVerbNode(text, Group(text, slashVerbMatch, 1),
                     Group(text, slashVerbMatch, 2),
                     Group(text, slashVerbMatch, 3))
  ELSE parseOxfordVerbs(text, Search(ReOxfordVerbs, text))

parse(text) == parseSlashVerbs(text, Search(ReSlashVerb, text))

\* ------------------------------------------------------------------------
\* UnknownWordAnalyzer and the GraphDLParser facade
\* ------------------------------------------------------------------------

\* the words of the unknownWords lists of a statement and of its expansions
RECURSIVE allUnknownWords(_)
RECURSIVE allUnknownOfEach(_)
allUnknownOfEach(ps) ==
  IF ps = <<>> THEN <<>>
  ELSE allUnknownWords(ps[1]) \o allUnknownOfEach(Tail(ps))

allUnknownWords(p) == p.unknownWords \o allUnknownOfEach(p.expansions)

\* this.unknownWords.set(word, (this.unknownWords.get(word) || 0) + 1): the
\* tally is the Map, a sequence of <<word, count>> entries in insertion order
setWord(tally, word, at) ==
  IF at = {} THEN Append(tally, <<word, 1>>)
  ELSE [i \in DOMAIN tally |->
          IF i \in at THEN <<word, tally[i][2] + 1>> ELSE tally[i]]

\* UnknownWordAnalyzer.addParse, the words of the statement and of its
\* expansions in the order the recursion meets them
RECURSIVE addWords(_, _)
addWords(tally, ws) ==
  IF ws = <<>> THEN tally
  ELSE addWords(setWord(tally, ws[1],
                        {i \in DOMAIN tally : tally[i][1] = ws[1]}),
                Tail(ws))

addParse(tally, p) == addWords(tally, allUnknownWords(p))

\* entries.sort((a, b) => b[1] - a[1]): one entry put in its place among
\* entries already sorted; Array.prototype.sort is stable, so an entry goes
\* after the entries of the same count that came before it
insertByCount(sorted, e) ==
  SelectSeq(sorted, LAMBDA x : x[2] >= e[2]) \o <<e>>
    \o SelectSeq(sorted, LAMBDA x : x[2] < e[2])

RECURSIVE sortByCount(_)
sortByCount(entries) ==
  IF entries = <<>> THEN <<>>
  ELSE insertByCount(sortByCount(SubSeq(entries, 1, Len(entries) - 1)),
                     entries[Len(entries)])

\* getTopUnknown(limit: number = 100)
DefaultLimit == 100

\* array.slice(0, limit), limit a natural number
slice(array, limit) ==
  SubSeq(array, 1, IF limit < Len(array) THEN limit ELSE Len(array))

\* the sort that leaves the Map's order of insertion
getTopUnknownUnsorted(tally, limit) == slice(tally, limit)

\* UnknownWordAnalyzer.getTopUnknown
getTopUnknown(tally, limit) == slice(sortByCount(tally), limit)

\* word.match(/^[A-Z]/) ? 'NOUN' : 'VERB'
suggestedPOS(word) == IF StartsUpper(word[1]) THEN "NOUN" ELSE "VERB"

\* the rows exportTSV gives to fs.writeFileSync, each a sequence of the
\* fields the tabs separate
ExportLimit == 1000

exportHeader == <<"word", "frequency", "suggested_pos">>

exportTSV(tally) ==
  <<exportHeader>>
    \o [i \in 1..Len(getTopUnknown(tally, ExportLimit)) |->
          << getTopUnknown(tally, ExportLimit)[i][1],
             getTopUnknown(tally, ExportLimit)[i][2],
             suggestedPOS(getTopUnknown(tally, ExportLimit)[i][1]) >>]

\* ------------------------------------------------------------------------
\* GraphDLParser.toPascalCase and toGraphDL
\* ------------------------------------------------------------------------

\* w.replace(/[,;:()']/g, '')
StripAtoms == {",", ";", ":", "(", ")", "'"}

stripPunctuation(w) == SelectSeq(w, LAMBDA a : a \notin StripAtoms)

\* ['and', 'or', 'but', 'the', 'a', 'an']
pascalStopWords ==
  { <<"and">>, <<"or">>, <<"but">>, <<"the">>, <<"a">>, <<"an">> }

\* part.charAt(0).toUpperCase() + part.slice(1).toLowerCase()
pascalPart(part) ==
  IF part = <<>> THEN <<>>
  ELSE <<capitalizeAtom(toLowerCaseAtom(part[1]))>> \o toLowerCase(Tail(part))

\* word.split('-').map(...).join('')
RECURSIVE pascalParts(_)
pascalParts(ps) ==
  IF ps = <<>> THEN <<>> ELSE pascalPart(ps[1]) \o pascalParts(Tail(ps))

\* filter(w => w && !stop.includes(w.toLowerCase())) on a stripped word
pascalKeep(w) == w # <<>> /\ toLowerCase(w) \notin pascalStopWords

\* the words in Pascal case with their punctuation kept
RECURSIVE pascalWordsUnstripped(_)
pascalWordsUnstripped(ws) ==
  IF ws = <<>> THEN <<>>
  ELSE (IF pascalKeep(ws[1]) THEN pascalParts(Split(Lit("-"), ws[1]))
        ELSE <<>>)
         \o pascalWordsUnstripped(Tail(ws))

RECURSIVE pascalWords(_)
pascalWords(ws) ==
  IF ws = <<>> THEN <<>>
  ELSE (IF pascalKeep(stripPunctuation(ws[1]))
        THEN pascalParts(Split(Lit("-"), stripPunctuation(ws[1])))
        ELSE <<>>)
         \o pascalWords(Tail(ws))

toPascalCase(phrase) == pascalWords(Split(ReSpaces, phrase))

\* ['of', 'in', 'on', 'at', 'to', 'for', 'with', 'from', 'by']
graphdlPrepositions ==
  { <<"of">>, <<"in">>, <<"on">>, <<"at">>, <<"to">>, <<"f", "or">>,
    <<"with">>, <<"from">>, <<"by">> }

\* ['and', 'or', 'but']
coordinators == { <<"and">>, <<"or">>, <<"but">> }

dropCoordinators(words) ==
  SelectSeq(words, LAMBDA w : toLowerCase(w) \notin coordinators)

\* words.findIndex(w => prepositions.includes(w.toLowerCase())), counted
\* from 1, 0 when there is none
RECURSIVE findPrepositionFrom(_, _)
findPrepositionFrom(words, i) ==
  IF i > Len(words) THEN 0
  ELSE IF toLowerCase(words[i]) \in graphdlPrepositions THEN i
  ELSE findPrepositionFrom(words, i + 1)

findPreposition(words) == findPrepositionFrom(words, 1)

\* `${before}.${prep.toLowerCase()}.${after}`
aroundPreposition(before, prep, after) ==
  toPascalCase(join(before)) \o <<".">> \o toLowerCase(prep) \o <<".">>
    \o toPascalCase(join(after))

\* the part of the object, prepIndex being k
objectAt(object, words, k) ==
  IF k > 1 /\ k < Len(words)
  THEN aroundPreposition(dropCoordinators(SubSeq(words, 1, k - 1)), words[k],
                         dropCoordinators(SubSeq(words, k + 1, Len(words))))
  ELSE toPascalCase(object)

objectPart(object) ==
  objectAt(object, nonEmpty(Split(ReSpaces, object)),
           findPreposition(nonEmpty(Split(ReSpaces, object))))

\* the last atoms of the words that end in ize, ate, ify, ect, uce or ase
LikelyVerbEndAtoms == {"frobnicate", "inspect", "collect", "select"}

\* the last atoms of the words that end in ize, ate, ify or ure
InfinitiveEndAtoms == {"frobnicate", "ensure"}

\* isLikelyVerb, firstWord in lower case
isLikelyVerb(firstWord) ==
  /\ ~endsWithIng(firstWord)
  /\ \/ verbsHas(firstWord)
     \/ firstWord[Len(firstWord)] \in LikelyVerbEndAtoms

isInfinitiveVerb(word) ==
  /\ ~endsWithIng(word)
  /\ \/ verbsHas(toLowerCase(word))
     \/ toLowerCaseAtom(word[Len(word)]) \in InfinitiveEndAtoms

\* the parts pushed for a complement after the preposition 'to'
infinitiveParts(complement, complementWords) ==
  IF Len(complementWords) >= 2
  THEN IF isLikelyVerb(toLowerCase(complementWords[1]))
       THEN << toLowerCase(complementWords[1]) \o <<".">>
                 \o toPascalCase(join(Tail(complementWords))) >>
       ELSE <<toPascalCase(complement)>>
  ELSE IF Len(complementWords) = 1
  THEN IF /\ ~endsWithIng(complementWords[1])
          /\ verbsHas(toLowerCase(complementWords[1]))
       THEN <<toLowerCase(complementWords[1])>>
       ELSE <<toPascalCase(complement)>>
  ELSE <<>>

\* /^to\s+(\w+)\s+(.+)$/i
ReStartsWithTo ==
  Bol \o Lit("to") \o Plus(S) \o Cap(1, Plus(W)) \o Plus(S)
      \o Cap(2, Plus(Dot)) \o Eol

\* /^(.+?)\s+to\s+(\w+)\s+(.+)$/i
ReToInfinitive ==
  Bol \o Cap(1, LazyPlus(Dot)) \o Plus(S) \o Lit("to") \o Plus(S)
      \o Cap(2, Plus(W)) \o Plus(S) \o Cap(3, Plus(Dot)) \o Eol

\* /^(.+?)\s+(concerned|related|...|pertaining)\s+(with|to|in|for|on)\s+(.+)$/i
ReInternalPrep ==
  Bol \o Cap(1, LazyPlus(Dot)) \o Plus(S)
      \o Cap(2, Alt(<< Lit("concerned"), Lit("related"), Lit("involved"),
                       Lit("responsible"), Lit("engaged"), Lit("associated"),
                       Lit("dealing"), Lit("focused"), Lit("pertaining") >>))
      \o Plus(S)
      \o Cap(3, Alt(<< Lit("with"), Lit("to"), Lit("in"),
                       Lit("f") \o Lit("or"), Lit("on") >>))
      \o Plus(S) \o Cap(4, Plus(Dot)) \o Eol

\* the complement split at its first preposition, if it has one inside
complementAt(complement, words, k) ==
  IF k > 1 /\ k < Len(words)
  THEN aroundPreposition(SubSeq(words, 1, k - 1), words[k],
                         SubSeq(words, k + 1, Len(words)))
  ELSE toPascalCase(complement)

complementPlain(complement) ==
  complementAt(complement,
               dropCoordinators(nonEmpty(Split(ReSpaces, complement))),
               findPreposition(
                 dropCoordinators(nonEmpty(Split(ReSpaces, complement)))))

complementInternalPrep(complement, internalPrepMatch) ==
  IF internalPrepMatch.ok
  THEN toPascalCase(Group(complement, internalPrepMatch, 1)) \o <<".">>
         \o toLowerCase(Group(complement, internalPrepMatch, 2)) \o <<".">>
         \o toLowerCase(Group(complement, internalPrepMatch, 3)) \o <<".">>
         \o toPascalCase(Group(complement, internalPrepMatch, 4))
  ELSE complementPlain(complement)

complementToInfinitive(complement, toInfinitiveMatch) ==
  IF toInfinitiveMatch.ok
  THEN IF isInfinitiveVerb(Group(complement, toInfinitiveMatch, 2))
       THEN toPascalCase(Group(complement, toInfinitiveMatch, 1))
              \o <<".", "to", ".">>
              \o toLowerCase(Group(complement, toInfinitiveMatch, 2))
              \o <<".">>
              \o toPascalCase(Group(complement, toInfinitiveMatch, 3))
       ELSE toPascalCase(complement)
  ELSE complementInternalPrep(complement, Search(ReInternalPrep, complement))

complementStartsWithTo(complement, startsWithToMatch) ==
  IF startsWithToMatch.ok
  THEN IF isInfinitiveVerb(Group(complement, startsWithToMatch, 1))
       THEN toLowerCase(Group(complement, startsWithToMatch, 1)) \o <<".">>
              \o toPascalCase(Group(complement, startsWithToMatch, 2))
       ELSE toPascalCase(complement)
  ELSE complementToInfinitive(complement, Search(ReToInfinitive, complement))

\* the parts pushed for the complement
complementParts(p) ==
  IF p.complement = None THEN <<>>
  ELSE IF p.preposition = <<"to">>
  THEN infinitiveParts(p.complement, nonEmpty(Split(ReSpaces, p.complement)))
  ELSE <<complementStartsWithTo(p.complement,
                                Search(ReStartsWithTo, p.complement))>>

\* parts.join('.')
RECURSIVE joinDots(_)
joinDots(parts) ==
  IF parts = <<>> THEN <<>>
  ELSE IF Len(parts) = 1 THEN parts[1]
  ELSE parts[1] \o <<".">> \o joinDots(Tail(parts))

\* toGraphDL of a statement without expansions
leafGraphDL(p) ==
  joinDots((IF p.predicate # None THEN <<toLowerCase(p.predicate)>> ELSE <<>>)
             \o (IF p.object # None THEN <<objectPart(p.object)>> ELSE <<>>)
             \o (IF p.preposition # None THEN <<p.preposition>> ELSE <<>>)
             \o complementParts(p))

\* array.join(', ')
RECURSIVE joinCommas(_)
joinCommas(ts) ==
  IF ts = <<>> THEN <<>>
  ELSE IF Len(ts) = 1 THEN ts[1]
  ELSE ts[1] \o <<",", " ">> \o joinCommas(Tail(ts))

RECURSIVE toGraphDL(_)
RECURSIVE toGraphDLEach(_)

\* parse.expansions.map(e => this.toGraphDL(e))
toGraphDLEach(ps) ==
  IF ps = <<>> THEN <<>>
  ELSE <<toGraphDL(ps[1])>> \o toGraphDLEach(Tail(ps))

toGraphDL(p) ==
  IF Len(p.expansions) > 0
  THEN <<"[">> \o joinCommas(toGraphDLEach(p.expansions)) \o <<"]">>
  ELSE leafGraphDL(p)

\* ------------------------------------------------------------------------
\* Inputs
\* ------------------------------------------------------------------------

\* the longest list of coordinated items in an input
MaxItems == 3

\* the longest text built token by token
MaxTokens == 3

sp == <<" ">>

\* "i1", "i1 or i2", "i1, i2, and i3", ... : the items joined as a list
RECURSIVE commaJoin(_)
commaJoin(items) ==
  IF Len(items) = 1 THEN items[1]
  ELSE items[1] \o <<",", " ">> \o commaJoin(Tail(items))

listOf(items, conj) ==
  IF Len(items) = 1 THEN items[1]
  ELSE IF Len(items) = 2 THEN items[1] \o sp \o conj \o sp \o items[2]
  ELSE commaJoin(SubSeq(items, 1, Len(items) - 1)) \o <<",", " ">> \o conj
         \o sp \o items[Len(items)]

\* the sequences of 1..n elements of a set
SeqsUpTo(set, n) == UNION {[1..k -> set] : k \in 1..n}

Conjs == {<<"and">>, <<"or">>}

\* the lists of one to n items
ListsOf(itemSet, n) ==
  {listOf(items, conj) : items \in SeqsUpTo(itemSet, n), conj \in Conjs}

\* tokens joined into a text: a comma or a slash is written directly after
\* the word before it, a slash directly before the word after it
RECURSIVE render(_)
render(toks) ==
  IF toks = <<>> THEN <<>>
  ELSE IF Len(toks) = 1 THEN toks[1]
  ELSE IF toks[2] \in {<<",">>, <<"/">>} \/ toks[1] = <<"/">>
       THEN toks[1] \o render(Tail(toks))
       ELSE toks[1] \o sp \o render(Tail(toks))

Input(kind, parts, t) == [kind |-> kind, parts |-> parts, text |-> t]

NoInput == Input("none", <<>>, <<>>)

\* texts made of any tokens: empty, punctuation only, fragments, mixes
TokenAlphabet ==
  { <<"Prepare">>, <<"reports">>, <<"and">>, <<",">>, <<"/">>,
    <<"such", " ", "as">> }

TokenInputs ==
  {Input("tokens", toks, render(toks)) :
     toks \in {<<>>} \cup SeqsUpTo(TokenAlphabet, MaxTokens)}

\* 'V O p C'
CartesianInputs ==
  {Input("voc", <<v, o, p, c>>, v \o sp \o o \o sp \o p \o sp \o c) :
     v \in {<<"Prepare">>},
     o \in ListsOf({<<"reports">>, <<"plans">>}, MaxItems),
     p \in {<<"on">>, <<"f", "or">>},
     c \in { <<"findings">>,
             <<"findings", " ", "or", " ", "data">>,
             <<"findings", " ", "and", " ", "data">> }}

\* 'V1 (and|or) V2 R'
TwoVerbInputs ==
  {Input("twoVerbs", <<v1, conj, v2, r>>,
         v1 \o sp \o conj \o sp \o v2 \o sp \o r) :
     v1 \in {<<"Assist">>},
     conj \in Conjs,
     v2 \in {<<"file">>, <<"support">>},
     r \in ListsOf({<<"reports">>, <<"services">>}, MaxItems)
             \cup {<<"reports", " ", "on", " ", "findings", " ", "or", " ",
                     "data">>}}

\* 'V1, V2, ..., (and|or) Vn R'
OxfordVerbInputs ==
  {Input("oxfordVerbs", vs \o <<conj, r>>, listOf(vs, conj) \o sp \o r) :
     vs \in {ws \in SeqsUpTo({<<"Collect">>, <<"frobnicate">>, <<"report">>},
                             MaxItems) : Len(ws) >= 3},
     conj \in Conjs,
     r \in {<<"data">>, <<"reports", " ", "and", " ", "findings">>}}

\* 'V1/V2 R'
SlashVerbInputs ==
  {Input("slashVerbs", <<v1, v2, r>>, v1 \o <<"/">> \o v2 \o sp \o r) :
     v1 \in {<<"Prepare">>}, v2 \in {<<"file">>, <<"frobnicate">>},
     r \in ListsOf({<<"reports">>, <<"plans">>}, 2)}

\* phrases without a coordination: words only, none of them 'and' or 'or',
\* 'as' never right after 'such'
PlainWords ==
  { <<"Prepare">>, <<"reports">>, <<"vend", "or">>, <<"both">>, <<"such">>,
    <<"of">> }

PlainInputs ==
  {Input("plain", ws, join(ws)) : ws \in SeqsUpTo(PlainWords, MaxTokens)}

\* 'i1, i2, ..., (and|or) in' with three items or more
OxfordListInputs ==
  {Input("oxfordList", items \o <<conj>>, listOf(items, conj)) :
     items \in {is \in SeqsUpTo({ <<"prices">>,
                                  <<"vend", "or", " ", "lists">>,
                                  <<"br", "and", "s">> }, MaxItems) :
                  Len(is) >= 3},
     conj \in Conjs}

\* the '<middle> <suffix>' pairs of the inputs: two shared suffixes and
\* three phrases of the idiom list
MiddleSuffixes ==
  { << <<"Loading">>, <<"Machine">> >>,
    << <<"mechanical">>, <<"equipment">> >>,
    << <<"record">>, <<"keeping">> >>,
    << <<"quality">>, <<"control">> >>,
    << <<"cost">>, <<"reduction">> >> }

Lefts ==
  { <<"Excavating">>, <<"generation">>, <<"data">>,
    <<"old", " ", "reports">> }

\* '<left> (and|or) <middle> <suffix>'
SharedSuffixInputs ==
  {Input("sharedSuffix", <<left, conj, ms[1], ms[2]>>,
         left \o sp \o conj \o sp \o ms[1] \o sp \o ms[2]) :
     left \in Lefts, conj \in Conjs, ms \in MiddleSuffixes}

\* 'V <left> (and|or) <middle> <suffix>'
VerbSharedSuffixInputs ==
  {Input("verbSharedSuffix", <<v>> \o in.parts, v \o sp \o in.text) :
     v \in {<<"Inspect">>, <<"Improve">>}, in \in SharedSuffixInputs}

\* middles that are determiners of the lexicon: among the seven the
\* phrase-level rule looks for and outside them, one capitalized
DeterminerMiddles ==
  { <<"the">>, <<"The">>, <<"this">>, <<"some">>, <<"each">> }

\* '<left> (and|or) <middle> <suffix>', middle a determiner
DeterminerInputs ==
  {Input("determiner", <<left, conj, middle, suffix>>,
         left \o sp \o conj \o sp \o middle \o sp \o suffix) :
     left \in {<<"data">>, <<"old", " ", "reports">>}, conj \in Conjs,
     middle \in DeterminerMiddles, suffix \in {<<"reports">>, <<"lists">>}}

\* 'V <left> (and|or) <middle> <suffix>', middle a determiner
VerbDeterminerInputs ==
  {Input("verbDeterminer", <<v>> \o in.parts, v \o sp \o in.text) :
     v \in {<<"Inspect">>}, in \in DeterminerInputs}

\* phrases whose expansion re-enters the expander: 'both', 'such as', a
\* slash, a comma list, a coordinated suffix
NestedPhrases ==
  { <<"both", " ", "reports", " ", "and", " ", "plans">>,
    <<"both", " ", "reports", " ", "or", " ", "old", " ", "plans">>,
    <<"reports", " ", "such", " ", "as", " ", "plans", ",", " ", "prices",
      " ", "and", " ", "data">>,
    <<"reports", " ", "such", " ", "as", " ", "plans">>,
    <<"data", " ", "and", " ", "old", " ", "reports", " ", "and", " ",
      "plans">>,
    <<"data", " ", "or", " ", "old", " ", "reports", "/", "plans">>,
    <<"old", " ", "reports", "/", "plans">>,
    <<"reports", ",", " ", "plans">>,
    <<"reports", ",", " ", "both", " ", "plans", " ", "and", " ", "data">> }

NestedInputs == {Input("nested", <<p>>, p) : p \in NestedPhrases}

\* 'V P', P one of the phrases above
VerbNestedInputs ==
  {Input("verbNested", <<v, p>>, v \o sp \o p) :
     v \in {<<"Inspect">>}, p \in NestedPhrases}

\* the complements of the statements made for the serializer: with a comma,
\* with a verb, with a preposition or an infinitive inside
SerializedComplements ==
  { <<"data">>, <<"file">>,
    <<"inspect", " ", "data">>,
    <<"findings", ",", " ", "data">>,
    <<",", " ", "data">>,
    <<"findings", " ", "of", " ", "data">>,
    <<"plans", " ", "to", " ", "inspect", " ", "data">>,
    <<"plans", " ", "concerned", " ", "with", " ", "data">>,
    <<"to", " ", "inspect", " ", "data">> }

\* 'V reports p C', V a verb, two verbs around a slash, or no verb
SerializerInputs ==
  {Input("serializer", <<v, p, c>>,
         v \o sp \o <<"reports">> \o sp \o p \o sp \o c) :
     v \in {<<"Prepare">>, <<"Prepare", "/", "file">>, <<"Frobnicate">>},
     p \in {<<"to">>, <<"on">>},
     c \in SerializedComplements}

\* words of concept phrases, lower-cased and capitalized, a concept id and
\* a lower-cased id, beside a word of no concept
ConceptWords ==
  { <<"generation">>, <<"Mechanical">>, <<"equipment">>,
    <<"Mechanical", "Equipment">>, <<"generation", "equipment">>,
    <<"data">> }

\* texts of one to MaxTokens of these words
ConceptInputs ==
  {Input("concepts", ws, join(ws)) : ws \in SeqsUpTo(ConceptWords, MaxTokens)}

\* "i1 or i2 or i3": the items joined by the conjunction alone
RECURSIVE conjJoin(_, _)
conjJoin(items, conj) ==
  IF Len(items) = 1 THEN items[1]
  ELSE items[1] \o sp \o conj \o sp \o conjJoin(Tail(items), conj)

\* the ways a list of items is written: with commas and a conjunction
\* before the last item, with commas alone, with conjunctions alone
listForms(items, conj) ==
  {listOf(items, conj), commaJoin(items), conjJoin(items, conj)}

\* the lists of two items or more, each with its items
ConnectorLists ==
  UNION {{<<items, l>> : l \in listForms(items, conj)} :
           items \in {is \in SeqsUpTo({ <<"prices">>,
                                        <<"vend", "or", " ", "lists">> },
                                      MaxItems) : Len(is) >= 2},
           conj \in Conjs}

\* 'A (and|or) B <connector> <list>'
ConnectorInputs ==
  {Input("connector", <<<<"reports">>, <<"plans">>, c>> \o il[1],
         <<"reports">> \o sp \o conj \o sp \o <<"plans">> \o sp \o c \o sp
           \o il[2]) :
     conj \in Conjs,
     c \in {<<"concerned", " ", "with">>, <<"regarding">>},
     il \in ConnectorLists}

\* the examples of a 'such as' statement
Examples == {<<"prices">>, <<"vend", "or", " ", "lists">>, <<"data">>}

\* 'V C such as e1, e2 (and|or) e3' and 'V C such as e1 (and|or) e2 (and|or)
\* e3'
SuchAsInputs ==
  {Input("suchAs", <<v, c>> \o es,
         v \o sp \o c \o sp \o <<"such", " ", "as">> \o sp
           \o (IF commas
               THEN commaJoin(SubSeq(es, 1, 2)) \o sp \o conj \o sp \o es[3]
               ELSE conjJoin(es, conj))) :
     v \in {<<"Prepare">>}, c \in {<<"reports">>},
     es \in [1..3 -> Examples], conj \in Conjs, commas \in BOOLEAN}

\* the segments around the slashes of a phrase: empty, a word, a word with
\* a comma, and, between two slashes, two words
EdgeSegments == {<<>>, <<"reports">>, <<"plans">>, <<"plans", ",">>}

InnerSegments == EdgeSegments \cup {<<"data", " ", "prices">>}

SegmentLists ==
  {segs \in SeqsUpTo(InnerSegments, MaxItems) :
     /\ Len(segs) >= 2
     /\ segs[1] \in EdgeSegments
     /\ segs[Len(segs)] \in EdgeSegments}

\* "s1/s2/.../sn"
RECURSIVE slashJoin(_)
slashJoin(segs) ==
  IF Len(segs) = 1 THEN segs[1]
  ELSE segs[1] \o <<"/">> \o slashJoin(Tail(segs))

\* '<before> s1/s2/.../sn <after>', before and after may be empty
SlashInputs ==
  {Input("slash", <<before, after>> \o segs,
         join(nonEmpty(<<before, slashJoin(segs), after>>))) :
     before \in {<<>>, <<"old">>, <<"lists", " ", "such", " ", "as">>},
     after \in {<<>>, <<"lists">>},
     segs \in SegmentLists}

\* up to two tokens of an object
SlotObjects ==
  {<<>>} \cup SeqsUpTo({<<"reports">>, <<"the">>, <<",">>, <<".">>}, 2)

\* nothing, or a preposition and up to two tokens of a complement
SlotComplements ==
  {<<>>}
    \cup {<<<<"on">>>> \o c :
            c \in {<<>>} \cup SeqsUpTo({<<"the">>, <<"data">>, <<";">>}, 2)}

\* statements for the slot extractor: the verb, an object and a complement;
\* and a lead-in that ends a sentence, the verb and an object or none
SlotInputs ==
  {Input("slots", <<<<"Prepare">>>> \o obj \o comp,
         join(<<<<"Prepare">>>> \o obj \o comp)) :
     obj \in SlotObjects, comp \in SlotComplements}
    \cup {Input("slots", <<<<"Data">>, <<".">>, <<"Prepare">>>> \o obj,
                join(<<<<"Data">>, <<".">>, <<"Prepare">>>> \o obj)) :
            obj \in {<<>>, <<<<"reports">>>>}}

\* 'Prepare reports p plans <connector> O': a complement with a connector
\* phrase, its object of one word or two, under the preposition p
ConnectorComplementInputs ==
  {Input("connectorComplement", <<p, c[1], c[2]>> \o o,
         <<"Prepare", " ", "reports", " ">> \o p \o <<" ", "plans", " ">>
           \o c[1] \o sp \o c[2] \o sp \o join(o)) :
     p \in {<<"on">>, <<"to">>},
     c \in { <<<<"concerned">>, <<"with">>>>, <<<<"related">>, <<"to">>>>,
             <<<<"focused">>, <<"on">>>> },
     o \in { <<<<"data">>>>, <<<<"data">>, <<"lists">>>> }}

\* the words put after a 'to': ending in -ect, in -ure and in -ate, a
\* lexicon verb, a lexicon verb in 'ing' and a noun
InfinitiveWords ==
  { <<"select">>, <<"ensure">>, <<"frobnicate">>, <<"inspect">>,
    <<"loading">>, <<"data">> }

\* 'Prepare reports to W data', 'Prepare reports on to W data' and
\* 'Prepare reports on plans to W data': the word W after a top-level
\* 'to', after a 'to' that starts the complement and after a 'to' inside it
InfinitiveInputs ==
  {Input("infinitive", <<r, w>>,
         <<"Prepare", " ", "reports", " ">> \o r \o sp \o w
           \o <<" ", "data">>) :
     r \in { <<"to">>, <<"on", " ", "to">>,
             <<"on", " ", "plans", " ", "to">> },
     w \in InfinitiveWords}

\* phrases of up to three words for the tagger: verbs that end in 'ing', a
\* verb that does not and a noun
GerundInputs ==
  {Input("gerunds", words, join(words)) :
     words \in SeqsUpTo({<<"building">>, <<"loading">>, <<"prepare">>,
                         <<"Data">>}, 3)}

\* the inputs each function is applied to
ParseInputs ==
  TokenInputs \cup CartesianInputs \cup TwoVerbInputs \cup OxfordVerbInputs
    \cup SlashVerbInputs \cup PlainInputs \cup VerbSharedSuffixInputs
    \cup SerializerInputs \cup VerbNestedInputs \cup SuchAsInputs
    \cup SlotInputs \cup GerundInputs \cup ConnectorComplementInputs
    \cup InfinitiveInputs

PhraseInputs ==
  PlainInputs \cup OxfordListInputs \cup SharedSuffixInputs
    \cup VerbSharedSuffixInputs \cup NestedInputs \cup VerbNestedInputs
    \cup ConnectorInputs \cup SlashInputs \cup DeterminerInputs

RawTextInputs ==
  VerbSharedSuffixInputs \cup VerbNestedInputs \cup VerbDeterminerInputs

NormalizeInputs == ConceptInputs \cup SharedSuffixInputs

TextInputs ==
  ParseInputs \cup PhraseInputs \cup RawTextInputs \cup NormalizeInputs

\* ------------------------------------------------------------------------
\* The parser as a state machine
\* ------------------------------------------------------------------------

VARIABLES
  parserSet,    \* GraphDLParser.parser is defined
  pending,      \* initialize() calls that await loader.load()
  resolved,     \* some initialize() call has resolved
  tally,        \* UnknownWordAnalyzer.unknownWords
  input,        \* the argument of the last call
  returned,     \* the statement the last parse call returned, if any
  threw,        \* the last parse call raised 'Parser not initialized'
  alternatives, \* what expandPhrase returned for the input, once called
  statements,   \* what expandRawText returned for the input, once called
  graphdl,      \* what toGraphDL returned for the returned statement
  fresh,        \* what a parser initialized and never called returns
  calls,        \* the number of calls made so far
  parses,       \* the statements addParse has been given, in order
  top,          \* the limit and the rows of the last getTopUnknown call
  exported,     \* the lines the last exportTSV call wrote, if any
  normalized    \* what normalizeConceptsInText returned for the input

\* the state of the callers of parse, toGraphDL, the analyzer and the
\* concept normalizer
callers == <<fresh, calls, parses, top, exported, normalized>>

vars == <<parserSet, pending, resolved, tally, input, returned, threw,
          alternatives, statements, graphdl, lexicon, callers>>

\* initialize() calls that may be in flight at once
MaxPending == 2

\* new GraphDLParser()
Init ==
  /\ parserSet = FALSE
  /\ pending = 0
  /\ resolved = FALSE
  /\ tally = <<>>
  /\ input = NoInput
  /\ returned = <<>>
  /\ threw = FALSE
  /\ alternatives = <<>>
  /\ statements = <<>>
  /\ graphdl = <<>>
  /\ lexicon = <<>>
  /\ fresh = <<>>
  /\ calls = 0
  /\ parses = <<>>
  /\ top = <<>>
  /\ exported = <<>>
  /\ normalized = <<>>

\* initialize(), up to the await
InitializeCall ==
  /\ pending < MaxPending
  /\ pending' = pending + 1
  /\ UNCHANGED <<parserSet, resolved, tally, input, returned, threw,
                 alternatives, statements, graphdl>>
  /\ UNCHANGED <<lexicon, callers>>

\* initialize() that resolves without having assigned this.parser
InitializeResumeUnassigned ==
  /\ pending > 0
  /\ pending' = pending - 1
  /\ resolved' = TRUE
  /\ UNCHANGED <<parserSet, tally, input, returned, threw, alternatives,
                 statements, graphdl>>
  /\ UNCHANGED <<lexicon, callers>>

\* initialize(), from the await on: this.lexicon and this.parser are set
InitializeResume ==
  /\ pending > 0
  /\ pending' = pending - 1
  /\ parserSet' = TRUE
  /\ resolved' = TRUE
  /\ UNCHANGED <<tally, input, returned, threw, alternatives, statements,
                 graphdl>>
  /\ lexicon' = <<load>>
  /\ UNCHANGED callers

\* the texts the callers of the lifecycle specification pass to parse
LifecycleInputs ==
  {in \in TokenInputs : Len(in.parts) <= 1}
    \cup {in \in TwoVerbInputs : Len(in.text) <= 7}
    \cup {in \in SlashVerbInputs : Len(in.text) <= 5}

\* GraphDLParser.parse(text)
Parse ==
  \E in \in LifecycleInputs :
    /\ input' = in
    /\ IF ~parserSet
       THEN /\ threw' = TRUE
            /\ returned' = <<>>
            /\ UNCHANGED tally
       ELSE /\ threw' = FALSE
            /\ returned' = <<parse(in.text)>>
            /\ tally' = addParse(tally, returned'[1])
    /\ UNCHANGED <<parserSet, pending, resolved, alternatives, statements,
                   graphdl>>
    /\ UNCHANGED <<lexicon, callers>>

Next == InitializeCall \/ InitializeResume \/ Parse

Spec == Init /\ [][Next]_vars

\* ------------------------------------------------------------------------
\* The functions of a text: an initialized parser is given one text, and
\* parse, expandPhrase and expandRawText are applied to it
\* ------------------------------------------------------------------------

InitText ==
  /\ lexicon = <<load>>
  /\ fresh = <<>>
  /\ calls = 0
  /\ parses = <<>>
  /\ top = <<>>
  /\ exported = <<>>
  /\ normalized = <<>>
  /\ parserSet = TRUE
  /\ pending = 0
  /\ resolved = TRUE
  /\ tally = <<>>
  /\ input \in TextInputs
  /\ returned = <<>>
  /\ threw = FALSE
  /\ alternatives = <<>>
  /\ statements = <<>>
  /\ graphdl = <<>>

\* GraphDLParser.parse(input.text) on the initialized parser
ParseGiven ==
  /\ parserSet
  /\ input \in ParseInputs
  /\ returned = <<>>
  /\ returned' = <<parse(input.text)>>
  /\ tally' = addParse(tally, returned'[1])
  /\ UNCHANGED <<parserSet, pending, resolved, input, threw, alternatives,
                 statements, graphdl>>
  /\ UNCHANGED <<lexicon, callers>>

\* StatementParser.expandPhrase(input.text)
ExpandPhraseGiven ==
  /\ input \in PhraseInputs
  /\ alternatives = <<>>
  /\ alternatives' = expandPhrase(input.text)
  /\ UNCHANGED <<parserSet, pending, resolved, tally, input, returned, threw,
                 statements, graphdl>>
  /\ UNCHANGED <<lexicon, callers>>

\* StatementParser.expandRawText(input.text)
ExpandRawTextGiven ==
  /\ input \in RawTextInputs
  /\ statements = <<>>
  /\ graphdl = <<>>
  /\ statements' = expandRawText(input.text)
  /\ UNCHANGED <<parserSet, pending, resolved, tally, input, returned, threw,
                 alternatives, graphdl>>
  /\ UNCHANGED <<lexicon, callers>>

\* GraphDLParser.toGraphDL(result), result the statement parse returned
ToGraphDLGiven ==
  /\ returned # <<>>
  /\ graphdl = <<>>
  /\ graphdl' = <<toGraphDL(returned[1])>>
  /\ UNCHANGED <<parserSet, pending, resolved, tally, input, returned, threw,
                 alternatives, statements>>
  /\ UNCHANGED <<lexicon, callers>>

\* StatementParser.normalizeConceptsInText(input.text)
NormalizeGiven ==
  /\ input \in NormalizeInputs
  /\ normalized = <<>>
  /\ normalized' = <<normalizeConceptsInText(input.text)>>
  /\ UNCHANGED <<parserSet, pending, resolved, tally, input, returned, threw,
                 alternatives, statements, graphdl, lexicon, fresh, calls,
                 parses, top, exported>>

NextText ==
  \/ ParseGiven
  \/ ExpandPhraseGiven
  \/ ExpandRawTextGiven
  \/ ToGraphDLGiven
  \/ NormalizeGiven

SpecText == InitText /\ [][NextText]_vars

\* ------------------------------------------------------------------------
\* The calls on one parser: parse, toGraphDL and getUnknownWords in any
\* order, beside a second parser that is initialized and never called
\* ------------------------------------------------------------------------

\* the calls one caller makes
MaxCalls == 3

\* the largest limit a caller passes
MaxLimit == 2

\* the limits passed to getUnknownWords and getTopUnknown: none (<<>>) or a
\* number of rows
Limits == {<<>>} \cup {<<n>> : n \in 0..MaxLimit}

\* limit: number = 100
limitOr(limit) == IF limit = <<>> THEN DefaultLimit ELSE limit[1]

\* the texts the callers pass to parse: with a verb of the lexicon, with two
\* verbs, with a first word that is no verb of the lexicon
CallInputs ==
  {in \in SerializerInputs :
     in.parts[2] = <<"to">> /\ in.parts[3] \in {<<"data">>, <<"file">>}}
    \cup {in \in TwoVerbInputs : Len(in.text) <= 7}

\* what the second parser returns for a text, and for the statement
freshParser ==
  [in \in CallInputs |->
     [statement |-> parse(in.text), graphdl |-> toGraphDL(parse(in.text))]]

InitCalls ==
  /\ lexicon = <<load>>
  /\ parserSet = TRUE
  /\ pending = 0
  /\ resolved = TRUE
  /\ tally = <<>>
  /\ input = NoInput
  /\ returned = <<>>
  /\ threw = FALSE
  /\ alternatives = <<>>
  /\ statements = <<>>
  /\ graphdl = <<>>
  /\ fresh = freshParser
  /\ calls = 0
  /\ parses = <<>>
  /\ top = <<>>
  /\ exported = <<>>
  /\ normalized = <<>>

\* GraphDLParser.parse(text) that adds the first word of the text to the
\* verbs of the lexicon
ParseCallLearning ==
  \E in \in CallInputs :
    /\ calls < MaxCalls
    /\ calls' = calls + 1
    /\ input' = in
    /\ returned' = <<parse(in.text)>>
    /\ tally' = addParse(tally, returned'[1])
    /\ graphdl' = <<>>
    /\ lexicon' =
         <<[lexicon[1] EXCEPT !.verbs = @ \cup {toLowerCase(<<in.text[1]>>)}]>>
    /\ UNCHANGED <<parserSet, pending, resolved, threw, alternatives,
                   statements, fresh, parses, top, exported,
                   normalized>>

\* GraphDLParser.parse(text) on the initialized parser
ParseCall ==
  \E in \in CallInputs :
    /\ calls < MaxCalls
    /\ calls' = calls + 1
    /\ input' = in
    /\ returned' = <<parse(in.text)>>
    /\ tally' = addParse(tally, returned'[1])
    /\ graphdl' = <<>>
    /\ UNCHANGED <<parserSet, pending, resolved, threw, alternatives,
                   statements, lexicon, fresh, parses, top, exported,
                   normalized>>

\* GraphDLParser.toGraphDL(statement), statement the one parse returned last
ToGraphDLCall ==
  /\ calls < MaxCalls
  /\ returned # <<>>
  /\ calls' = calls + 1
  /\ graphdl' = <<toGraphDL(returned[1])>>
  /\ UNCHANGED <<parserSet, pending, resolved, tally, input, returned, threw,
                 alternatives, statements, lexicon, fresh, parses, top,
                 exported, normalized>>

\* GraphDLParser.getUnknownWords(limit?)
GetUnknownWordsCall ==
  \E limit \in Limits :
    /\ calls < MaxCalls
    /\ calls' = calls + 1
    /\ top' = <<[limit |-> limitOr(limit),
                  rows |-> getTopUnknown(tally, limitOr(limit))]>>
    /\ UNCHANGED <<parserSet, pending, resolved, tally, input, returned,
                   threw, alternatives, statements, graphdl, lexicon, fresh,
                   parses, exported, normalized>>

NextCalls == ParseCall \/ ToGraphDLCall \/ GetUnknownWordsCall

SpecCalls == InitCalls /\ [][NextCalls]_vars

\* ------------------------------------------------------------------------
\* The calls on one UnknownWordAnalyzer: addParse, getTopUnknown and
\* exportTSV in any order
\* ------------------------------------------------------------------------

\* a statement with these unknown words and these expansions
analyzed(unknownWords, expansions) ==
  [statement(<<>>, None, <<>>, None, <<>>, <<>>, unknownWords)
     EXCEPT !.expansions = expansions]

\* the statements the callers pass to addParse: without unknown words, with
\* one, with two different ones, with one twice, with expansions that
\* repeat the node's word
AnalyzerStatements ==
  {analyzed(<<w>>, <<>>) : w \in {<<"Data">>, <<"data">>, <<"plans">>}}
    \cup { analyzed(<<>>, <<>>),
           analyzed(<< <<"data">>, <<"Data">> >>, <<>>),
           analyzed(<< <<"plans">>, <<"plans">> >>, <<>>),
           analyzed(<< <<"data">> >>,
                    << analyzed(<< <<"Data">> >>, <<>>),
                       analyzed(<< <<"data">> >>, <<>>) >>) }

\* new UnknownWordAnalyzer()
InitAnalyzer ==
  /\ lexicon = <<>>
  /\ parserSet = FALSE
  /\ pending = 0
  /\ resolved = FALSE
  /\ tally = <<>>
  /\ input = NoInput
  /\ returned = <<>>
  /\ threw = FALSE
  /\ alternatives = <<>>
  /\ statements = <<>>
  /\ graphdl = <<>>
  /\ fresh = <<>>
  /\ calls = 0
  /\ parses = <<>>
  /\ top = <<>>
  /\ exported = <<>>
  /\ normalized = <<>>

\* UnknownWordAnalyzer.addParse(parse)
AddParseCall ==
  \E p \in AnalyzerStatements :
    /\ calls < MaxCalls
    /\ calls' = calls + 1
    /\ tally' = addParse(tally, p)
    /\ parses' = Append(parses, p)
    /\ UNCHANGED <<parserSet, pending, resolved, input, returned, threw,
                   alternatives, statements, graphdl, lexicon, fresh, top,
                   exported, normalized>>

\* UnknownWordAnalyzer.getTopUnknown(limit?)
GetTopUnknownCall ==
  \E limit \in Limits :
    /\ calls < MaxCalls
    /\ calls' = calls + 1
    /\ top' = <<[limit |-> limitOr(limit),
                  rows |-> getTopUnknown(tally, limitOr(limit))]>>
    /\ UNCHANGED <<parserSet, pending, resolved, tally, input, returned,
                   threw, alternatives, statements, graphdl, lexicon, fresh,
                   parses, exported, normalized>>

\* UnknownWordAnalyzer.exportTSV(outputPath): the lines written to the file
ExportTSVCall ==
  /\ calls < MaxCalls
  /\ calls' = calls + 1
  /\ exported' = <<exportTSV(tally)>>
  /\ UNCHANGED <<parserSet, pending, resolved, tally, input, returned, threw,
                 alternatives, statements, graphdl, lexicon, fresh, parses,
                 top, normalized>>

NextAnalyzer == AddParseCall \/ GetTopUnknownCall \/ ExportTSVCall

SpecAnalyzer == InitAnalyzer /\ [][NextAnalyzer]_vars


\* ------------------------------------------------------------------------
\* Properties
\* ------------------------------------------------------------------------

\* a step that is a call of GraphDLParser.parse
ParseStep == input' # input \/ returned' # returned \/ threw' # threw

leaves == IF returned = <<>> THEN <<>> ELSE returned[1].expansions

StatementFields ==
  { "original", "predicate", "object", "preposition", "complement",
    "modifiers", "confidence", "unknownWords", "hasConjunction",
    "expansions" }

\* a statement without expansions
IsLeafStatement(p) ==
  /\ DOMAIN p = StatementFields
  /\ p.expansions = <<>>
  /\ p.hasConjunction = FALSE
  /\ p.confidence \in Int

\* C2: on an initialized parser a parse call never raises; for every text,
\* empty, punctuation only, fragmentary or with any mix of and/or, commas,
\* slashes and 'such as', it returns a statement of that text that is either
\* the unchanged single-leaf result of the slot extractor (no rule matched)
\* or a node of two leaves or more.
C2_ParseAlwaysReturnsAStatement ==
  /\ parserSet => ~threw
  /\ returned # <<>> =>
       /\ DOMAIN returned[1] = StatementFields
       /\ returned[1].original = input.text
       /\ \A i \in DOMAIN leaves : IsLeafStatement(leaves[i])
       /\ Len(leaves) # 1
       /\ leaves = <<>> => returned[1] = parseSingle(input.text)
       /\ leaves # <<>> => returned[1].hasConjunction

\* a text of punctuation and a conjunction only has been parsed into a leaf
C2_Witness ==
  /\ input.parts = << <<",">>, <<"/">>, <<"and">> >>
  /\ returned # <<>>
  /\ leaves = <<>>
  /\ ~threw

\* C3: every leaf of a parse result is elementary: parsing the text of a
\* leaf again gives a leaf, for the leaves of every rule.
C3_LeavesAreElementary ==
  \A i \in DOMAIN leaves : parse(leaves[i].original).expansions = <<>>

\* the statements 'V o p c', o over os and c over cs, o-major
IsProduct(ls, v, os, p, cs) ==
  /\ Len(ls) = Len(os) * Len(cs)
  /\ \A i \in DOMAIN os : \A j \in DOMAIN cs :
       ls[(i - 1) * Len(cs) + j].original
         = v \o sp \o os[i] \o sp \o p \o sp \o cs[j]

SameButPredicate(a, b) ==
  /\ a.object = b.object
  /\ a.preposition = b.preposition
  /\ a.complement = b.complement

TwoVerbLeaves(ls, k, v1, v2) ==
  /\ k >= 1
  /\ Len(ls) = 2 * k
  /\ \A i \in 1..k :
       /\ toLowerCase(ls[i].predicate) = toLowerCase(v1)
       /\ toLowerCase(ls[k + i].predicate) = toLowerCase(v2)
       /\ SameButPredicate(ls[i], ls[k + i])

\* C5: for 'V1 (and|or) V2 R' with V1 and V2 lexicon verbs, parse returns 2k
\* leaves, the first k with predicate V1 and the last k with predicate V2,
\* leaf i and leaf k+i with the same object, preposition and complement; two
\* leaves when R has no coordination.
C5_TwoVerbRule ==
  (returned # <<>> /\ input.kind = "twoVerbs") =>
    /\ TwoVerbLeaves(leaves, Len(leaves) \div 2, input.parts[1],
                     input.parts[3])
    /\ ~needsExpansion(input.parts[4]) => Len(leaves) = 2

\* C6: for 'V1, V2, ..., (and|or) Vn R', n >= 3, V1 a lexicon verb, R not
\* beginning with one and without coordination, parse returns n leaves and
\* the predicate of leaf i is Vi, whether Vi is in the lexicon or not.
C6_OxfordVerbList ==
  ( /\ returned # <<>>
    /\ input.kind = "oxfordVerbs"
    /\ verbsHas(toLowerCase(input.parts[1]))
    /\ ~needsExpansion(input.parts[Len(input.parts)]) ) =>
    /\ Len(leaves) = Len(input.parts) - 2
    /\ \A i \in DOMAIN leaves :
         toLowerCase(leaves[i].predicate) = toLowerCase(input.parts[i])

\* no whole word 'and' or 'or', no comma, no slash, no 'such as'
IsPlain(text) ==
  /\ ~hasAndOr(text)
  /\ ~includes(text, ",")
  /\ ~includes(text, "/")
  /\ ~Test(ReSuchAs, text)

\* C7: for a phrase P without a whole word 'and' or 'or', a comma, a slash
\* or 'such as', phrase expansion returns [P] and parse(P) is a single leaf
\* without the conjunction flag.
C7_IdentityLaw ==
  IsPlain(input.text) =>
    /\ alternatives # <<>> => alternatives = <<input.text>>
    /\ returned # <<>> =>
         /\ leaves = <<>>
         /\ returned[1].hasConjunction = FALSE
         /\ returned[1].original = input.text

\* 'both reports' has gone through phrase expansion and through parse
C7_Witness ==
  /\ input.text = <<"both", " ", "reports">>
  /\ alternatives = <<input.text>>
  /\ returned # <<>>
  /\ leaves = <<>>

\* C8: for a list 'i1, i2, ..., (and|or) in', n >= 3, whose items hold no
\* comma and no whole word 'and' or 'or', phrase expansion returns the items
\* in their order.
C8_OxfordCommaLaw ==
  (alternatives # <<>> /\ input.kind = "oxfordList") =>
    alternatives = SubSeq(input.parts, 1, Len(input.parts) - 1)

\* the alternatives of left, each with the suffix, then middle with the
\* suffix
RECURSIVE eachWith(_, _)
eachWith(ts, suffix) ==
  IF ts = <<>> THEN <<>>
  ELSE <<ts[1] \o sp \o suffix>> \o eachWith(Tail(ts), suffix)

\* the pairs of the inputs for which no suppression condition holds
SharedPairs ==
  { << <<"Loading">>, <<"Machine">> >>,
    << <<"mechanical">>, <<"equipment">> >> }

\* C9: expanding '<left> (and|or) <middle> <suffix>', middle a single word
\* and no suppression condition, returns the expansions of left each with
\* the suffix, then middle with the suffix; 'Excavating and Loading Machine'
\* gives 'Excavating Machine', 'Loading Machine'; parse('Inspect generation
\* or mechanical equipment') has two leaves with the objects 'generation
\* equipment' and 'mechanical equipment'.
C9_SharedSuffixLaw ==
  /\ ( /\ alternatives # <<>>
       /\ input.kind = "sharedSuffix"
       /\ <<input.parts[3], input.parts[4]>> \in SharedPairs ) =>
       alternatives
         = eachWith(expandPhrase(input.parts[1]), input.parts[4])
             \o <<input.parts[3] \o sp \o input.parts[4]>>
  /\ ( /\ alternatives # <<>>
       /\ input.text = <<"Excavating", " ", "and", " ", "Loading", " ",
                         "Machine">> ) =>
       alternatives = << <<"Excavating", " ", "Machine">>,
                         <<"Loading", " ", "Machine">> >>
  /\ ( /\ returned # <<>>
       /\ input.text = <<"Inspect", " ", "generation", " ", "or", " ",
                         "mechanical", " ", "equipment">> ) =>
       /\ Len(leaves) = 2
       /\ leaves[1].object = <<"generation", " ", "equipment">>
       /\ leaves[2].object = <<"mechanical", " ", "equipment">>

\* '<middle> <suffix>' is one of the idiom phrases
IsIdiom(middle, suffix) ==
  toLowerCase(middle \o sp \o suffix) \in compoundPhrases

inSeq(x, ts) == \E i \in DOMAIN ts : ts[i] = x

\* the words before the conjunction, the middle and the suffix of an input
\* made around a shared suffix; for phrase expansion of a text that begins
\* with a verb the verb belongs to left
leftOf(in) ==
  IF in.kind = "sharedSuffix" THEN in.parts[1]
  ELSE in.parts[1] \o sp \o in.parts[2]

middleOf(in) == in.parts[Len(in.parts) - 1]

suffixOf(in) == in.parts[Len(in.parts)]

\* C10: when '<middle> <suffix>' is an idiom phrase, expanding
\* '<left> (and|or) <middle> <suffix>' never gives '<left> <suffix>' and
\* gives '<middle> <suffix>' unsplit, in phrase expansion and in the
\* expansion of a whole statement.
C10_IdiomProtection ==
  ( /\ input.kind \in {"sharedSuffix", "verbSharedSuffix"}
    /\ IsIdiom(middleOf(input), suffixOf(input)) ) =>
    /\ alternatives # <<>> =>
         /\ ~inSeq(leftOf(input) \o sp \o suffixOf(input), alternatives)
         /\ inSeq(middleOf(input) \o sp \o suffixOf(input), alternatives)
    /\ statements # <<>> =>
         /\ ~inSeq(leftOf(input) \o sp \o suffixOf(input), statements)
         /\ inSeq(input.parts[1] \o sp \o middleOf(input) \o sp
                    \o suffixOf(input), statements)

\* 'Improve data or record keeping' has gone through both expansions
C10_Witness ==
  /\ input.text = <<"Improve", " ", "data", " ", "or", " ", "record", " ",
                    "keeping">>
  /\ alternatives # <<>>
  /\ statements # <<>>

\* the number of commas of a text
commasOf(t) == Cardinality({i \in DOMAIN t : t[i] = ","})

\* the path of a leaf is a part of the output
partOf(path, out) ==
  \E k \in DOMAIN out : SubSeq(out, k, k + Len(path) - 1) = path

\* C11: for every statement parse returns, toGraphDL of each leaf holds no
\* comma, and toGraphDL of a statement with expansions is '[', the
\* serializations of its children separated by ', ', and ']': the commas
\* of the output are the separators of the children and nothing else.
C11_SerializationShape ==
  graphdl # <<>> =>
    IF leaves = <<>>
    THEN commasOf(graphdl[1]) = 0
    ELSE /\ \A i \in DOMAIN leaves : commasOf(toGraphDL(leaves[i])) = 0
         /\ graphdl[1][1] = "["
         /\ graphdl[1][Len(graphdl[1])] = "]"
         /\ commasOf(graphdl[1]) = Len(leaves) - 1
         /\ \A i \in DOMAIN graphdl[1] :
              graphdl[1][i] = "," => graphdl[1][i + 1] = " "
         /\ \A i \in DOMAIN leaves :
              partOf(toGraphDL(leaves[i]), graphdl[1])

\* 'Prepare/file reports on findings, data' has been serialized: two leaves
\* whose complement holds a comma
C11_Witness ==
  /\ graphdl # <<>>
  /\ Len(leaves) = 2
  /\ \A i \in DOMAIN leaves : commasOf(leaves[i].complement) = 1

RECURSIVE expandPhraseShortens(_)

\* every call expandPhrase(phrase) makes, and every call made below it, is
\* given a text shorter than the text of the call that makes it
shorterPhrases(phrase, made) ==
  \A i \in DOMAIN made :
     length(made[i]) < length(phrase) /\ expandPhraseShortens(made[i])

expandPhraseShortens(phrase) ==
  shorterPhrases(phrase, expandPhraseCalls(phrase))

RECURSIVE expandRawTextShortens(_)

shorterTexts(text, made) ==
  /\ shorterPhrases(text, made.phrases)
  /\ \A i \in DOMAIN made.texts :
        /\ length(made.texts[i]) < length(text)
        /\ expandRawTextShortens(made.texts[i])

expandRawTextShortens(text) == shorterTexts(text, expandRawTextCalls(text))

\* C12: every call the expander makes on the way to its result (expandPhrase
\* on a sub-part, on the phrase stripped of 'both', on the parts of a
\* 'such as' phrase; expandRawText on a 'verb part suffix' result) is given
\* a text strictly shorter than the text of the call that makes it.
C12_RecursiveCallsShorten ==
  /\ alternatives # <<>> => expandPhraseShortens(input.text)
  /\ statements # <<>> => expandRawTextShortens(input.text)

\* expandRawText has expanded its own results again, and under them
\* expandPhrase was called: 'Inspect data and old reports and plans'
C12_Witness ==
  /\ statements # <<>>
  /\ expandRawTextCalls(input.text).texts # <<>>
  /\ \E i \in DOMAIN expandRawTextCalls(input.text).texts :
        expandRawTextCalls(expandRawTextCalls(input.text).texts[i]).phrases
          # <<>>

C14_NormalizationIsIdempotent ==
  normalized # <<>> =>
    normalizeConceptsInText(normalized[1]) = normalized[1]

\* a text in which two phrases were replaced by concept ids
C14_Witness ==
  /\ normalized # <<>>
  /\ normalized[1] # input.text
  /\ \E i, j \in 1..(Len(normalized[1]) - 1) :
        /\ i + 1 < j
        /\ SubSeq(normalized[1], i, i + 1) = <<"Generation", "Equipment">>
        /\ SubSeq(normalized[1], j, j + 1) = <<"Mechanical", "Equipment">>

\* '<subject> <connector> <item>' for each item
RECURSIVE connectedTo(_, _, _)
connectedTo(subject, connector, items) ==
  IF items = <<>> THEN <<>>
  ELSE <<subject \o sp \o connector \o sp \o items[1]>>
         \o connectedTo(subject, connector, Tail(items))

\* C15: for 'A (and|or) B <connector> <list>', the list of n >= 2 items
\* separated by commas, by 'and'/'or' or by both, phrase expansion returns
\* the 2*n alternatives 'S <connector> item', those of A first, the items in
\* their order.
C15_ConnectorPhraseRule ==
  (alternatives # <<>> /\ input.kind = "connector") =>
    alternatives =
      connectedTo(input.parts[1], input.parts[3],
                  SubSeq(input.parts, 4, Len(input.parts)))
        \o connectedTo(input.parts[2], input.parts[3],
                       SubSeq(input.parts, 4, Len(input.parts)))

\* the times a word occurs in the unknownWords of a statement and of the
\* statements under it
RECURSIVE occurrences(_, _)
RECURSIVE occurrencesInEach(_, _)
occurrencesInEach(ps, word) ==
  IF ps = <<>> THEN 0
  ELSE occurrences(ps[1], word) + occurrencesInEach(Tail(ps), word)

occurrences(p, word) ==
  Cardinality({i \in DOMAIN p.unknownWords : p.unknownWords[i] = word})
    + occurrencesInEach(p.expansions, word)

\* the rows hold each word once, in non-increasing order of count
IsRanking(rows) ==
  /\ \A i, j \in DOMAIN rows : rows[i][1] = rows[j][1] => i = j
  /\ \A i, j \in DOMAIN rows : i < j => rows[i][2] >= rows[j][2]

\* C16: the tally holds each word once, with the number of its occurrences
\* in the statements added so far (expansions included) and no other word;
\* getTopUnknown(limit) returns at most limit rows, each word once, in
\* non-increasing order of count; the export is one header line and at most
\* 1000 such rows.
C16_UnknownWordTally ==
  /\ \A i, j \in DOMAIN tally : tally[i][1] = tally[j][1] => i = j
  /\ \A i \in DOMAIN tally :
        tally[i][2] = occurrencesInEach(parses, tally[i][1]) /\ tally[i][2] > 0
  /\ \A k \in DOMAIN parses : \A n \in DOMAIN allUnknownWords(parses[k]) :
        \E i \in DOMAIN tally : tally[i][1] = allUnknownWords(parses[k])[n]
  /\ top # <<>> => Len(top[1].rows) <= top[1].limit /\ IsRanking(top[1].rows)
  /\ exported # <<>> =>
       /\ exported[1][1] = exportHeader
       /\ Len(exported[1]) - 1 <= ExportLimit
       /\ IsRanking(Tail(exported[1]))

\* a word added later has the larger count and comes first in the rows; the
\* limit has cut a row off
C16_Witness ==
  /\ Len(tally) = 2
  /\ tally[1][2] < tally[2][2]
  /\ top # <<>>
  /\ top[1].limit = 1
  /\ top[1].rows = <<tally[2]>>

\* the texts the leaves were parsed from
originals(ps) == [i \in DOMAIN ps |-> ps[i].original]

\* C17: for a lexicon verb V, the leaves of parse('V C such as e1, e2
\* (and|or) e3'), the examples separated by a comma and a conjunction or by
\* conjunctions only, are the statements 'V C', 'V e1', 'V e2', 'V e3' in
\* this order.
C17_SuchAsFirst ==
  (returned # <<>> /\ input.kind = "suchAs") =>
    originals(leaves) =
      withVerb(input.parts[1], SubSeq(input.parts, 2, Len(input.parts)))

\* (words before the span) + segment + (words after it), for each segment
slashed(before, after, segments) ==
  [i \in DOMAIN segments |-> join(nonEmpty(<<before, segments[i], after>>))]

\* what the slash rule is said to return for a phrase and the non-empty
\* segments of its span
slashRule(phrase, before, after, segments) ==
  IF Len(segments) < 2 THEN <<phrase>>
  ELSE slashed(before, after, segments)

\* C18, as stated: for a phrase without a whole word 'and' or 'or', phrase
\* expansion returns, for each non-empty slash-separated segment of the span
\* of the words that hold a slash, the words before the span, the segment
\* and the words after the span; with fewer than two segments it returns
\* the phrase.
C18_SlashRule ==
  (alternatives # <<>> /\ input.kind = "slash") =>
    alternatives =
      slashRule(input.text, input.parts[1], input.parts[2],
                nonEmpty(SubSeq(input.parts, 3, Len(input.parts))))

\* C18, amended: the same for a phrase that holds no comma and no 'such as'
\* either.
C18_SlashRuleWithoutCommaOrSuchAs ==
  ( /\ alternatives # <<>>
    /\ input.kind = "slash"
    /\ ~includes(input.text, ",")
    /\ ~Test(ReSuchSpAs, input.text) ) =>
    alternatives =
      slashRule(input.text, input.parts[1], input.parts[2],
                nonEmpty(SubSeq(input.parts, 3, Len(input.parts))))

\* 'old reports/data prices//plans lists': a span of two words, an empty
\* segment, words before and after
C18_Witness ==
  /\ input.kind = "slash"
  /\ input.parts[1] # <<>> /\ input.parts[2] # <<>>
  /\ \E i \in 3..Len(input.parts) : input.parts[i] = <<>>
  /\ \E i \in 3..Len(input.parts) : input.parts[i] = <<"data", " ", "prices">>
  /\ ~includes(input.text, ",")
  /\ Len(alternatives) = 2

\* the verb and the phrase of 'V P', V one word
verbOf(text) == <<text[1]>>

phraseOf(text) == SubSeq(text, 3, Len(text))

\* some whitespace-separated word of the phrase is a preposition
hasPreposition(phrase) ==
  \E i \in DOMAIN Split(ReSpaces, phrase) :
    toLowerCase(Split(ReSpaces, phrase)[i]) \in lexicon[1].prepositions

VerbPhraseKinds == {"verbSharedSuffix", "verbNested", "verbDeterminer"}

\* C19: for a lexicon verb V and a phrase P that holds no preposition,
\* expandRawText('V P') is the list of 'V p', p running over
\* expandPhrase(P), same elements in the same order.
C19_StatementAnchoredMirrorsPhrase ==
  ( /\ statements # <<>>
    /\ input.kind \in VerbPhraseKinds
    /\ verbsHas(toLowerCase(verbOf(input.text)))
    /\ ~hasPreposition(phraseOf(input.text)) ) =>
    statements = withVerb(verbOf(input.text), expandPhrase(phraseOf(input.text)))

\* C20: in '<left> (and|or) <middle> <suffix>' with a middle of the lexicon
\* determiners, no alternative '<left> <suffix>' is made: the fallback
\* split gives '<left>' and '<middle> <suffix>', for the phrase and, behind
\* the verb, for 'V <left> (and|or) <middle> <suffix>'.
C20_DeterminerGuard ==
  /\ ( /\ alternatives # <<>>
       /\ input.kind = "determiner"
       /\ toLowerCase(input.parts[3]) \in lexicon[1].determiners ) =>
       alternatives =
         << input.parts[1], input.parts[3] \o sp \o input.parts[4] >>
  /\ ( /\ statements # <<>>
       /\ input.kind = "verbDeterminer"
       /\ toLowerCase(input.parts[4]) \in lexicon[1].determiners ) =>
       statements =
         withVerb(input.parts[1],
                  << input.parts[2], input.parts[4] \o sp \o input.parts[5] >>)

\* C21: in phrase expansion of '<left> (and|or) <middle> <suffix>' with
\* '<middle> <suffix>', or its hyphenated or joined variant, a key of the
\* concept table, the shared-suffix rule is suppressed: '<middle> <suffix>'
\* is one alternative and no alternative is '<left> <suffix>'.
C21_ConceptGuard ==
  ( /\ alternatives # <<>>
    /\ input.kind = "sharedSuffix"
    /\ isCompoundConcept(input.parts[3], input.parts[4]) ) =>
    /\ \E i \in DOMAIN alternatives :
         alternatives[i] = input.parts[3] \o sp \o input.parts[4]
    /\ \A i \in DOMAIN alternatives :
         alternatives[i] # input.parts[1] \o sp \o input.parts[4]

\* the leaves of the statement the last parse call returned, the statement
\* itself when it has no expansions
leafNodes ==
  IF returned = <<>> THEN <<>>
  ELSE IF returned[1].expansions = <<>> THEN returned
  ELSE returned[1].expansions

\* the tagged tokens of the text of a leaf
taggedOf(p) == tag(tokenize(normalizeConceptsInText(p.original)))

\* the position of the first token with one of the tags, Len + 1 when none
firstTagged(tagged, tags) ==
  Least({i \in 1..(Len(tagged) + 1) :
           i = Len(tagged) + 1 \/ tagged[i].pos \in tags})

\* the predicate of leaf p is the text of the token at position at; with no
\* such token the predicate and the later slots are unset; the modifiers
\* are texts of tokens tagged ADV or ADJ
predicateIsAt(p, tagged, at) ==
  /\ IF at <= Len(tagged)
     THEN p.predicate = tagged[at].text
     ELSE /\ p.predicate = None
          /\ p.object = None
          /\ p.preposition = None
          /\ p.complement = None
  /\ \A m \in DOMAIN p.modifiers :
       \E i \in DOMAIN tagged :
         tagged[i].text = p.modifiers[m] /\ tagged[i].pos \in {"ADV", "ADJ"}

\* the predicate of leaf p is the text of the first token with one of the
\* tags
predicateIsFirst(p, tagged, tags) ==
  predicateIsAt(p, tagged, firstTagged(tagged, tags))

\* C22, as stated: the predicate of a leaf is the text of the first token
\* tagged VERB, every token before it being skipped, unclassified lower-case
\* words included; with no token tagged VERB the predicate and all later
\* slots are unset.
C22_PredicateIsFirstVerb ==
  \A l \in DOMAIN leafNodes :
    predicateIsFirst(leafNodes[l], taggedOf(leafNodes[l]), {"VERB"})

\* C22, amended: the predicate of a leaf is the text of the first token
\* tagged VERB or UNK-VERB (an unclassified lower-case word); with no such
\* token the predicate and all later slots are unset.
C22_PredicateIsFirstVerbLike ==
  \A l \in DOMAIN leafNodes :
    predicateIsFirst(leafNodes[l], taggedOf(leafNodes[l]),
                     {"VERB", "UNK-VERB"})

\* 'reports Prepare ...': an unclassified lower-case word before a verb of
\* the lexicon is the predicate; and a text without any such token
C22_Witness ==
  /\ returned # <<>>
  /\ input.kind \in {"plain", "tokens"}
  /\ Len(leafNodes) = 1
  /\ firstTagged(taggedOf(returned[1]), {"VERB", "UNK-VERB"}) = 1
  /\ firstTagged(taggedOf(returned[1]), {"VERB"}) = 2
  /\ returned[1].predicate = <<"reports">>

\* the texts of the tokens
texts(toks) == [i \in DOMAIN toks |-> toks[i].text]

keptInObject(tok) == tok.pos # "DET" /\ tok.text # <<",">>

keptInComplement(tok) == tok.pos # "DET"

\* a slot of the tokens, unset when there is none
slotOf(toks) == IF toks = <<>> THEN None ELSE join(texts(toks))

\* the position of the first token from position from on that has one of
\* the tags or ends a sentence, Len + 1 when none
firstFrom(tagged, from, tags) ==
  Least({i \in from..(Len(tagged) + 1) :
           \/ i = Len(tagged) + 1
           \/ tagged[i].pos \in tags
           \/ isStop(tagged[i])})

\* the position of the first token from position from on that has none of
\* the tags, Len + 1 when none
firstNotFrom(tagged, from, tags) ==
  Least({i \in from..(Len(tagged) + 1) :
           i = Len(tagged) + 1 \/ tagged[i].pos \notin tags})

\* the complement of leaf p starts at position at and ends before a '.', ';'
\* or ')'
complementIsFrom(p, tagged, at) ==
  p.complement =
    slotOf(SelectSeq(SubSeq(tagged, at, firstFrom(tagged, at, {}) - 1),
                     keptInComplement))

\* the object of leaf p ends before position to; a preposition there is the
\* preposition of p and the complement follows it
objectIsUpTo(p, tagged, verb, to) ==
  /\ p.object = slotOf(SelectSeq(SubSeq(tagged, verb + 1, to - 1), keptInObject))
  /\ IF to <= Len(tagged) /\ tagged[to].pos = "PREP"
     THEN /\ p.preposition = tagged[to].normalized
          /\ complementIsFrom(p, tagged,
                              firstNotFrom(tagged, to + 1, {"DET", "ADV", "ADJ"}))
     ELSE p.preposition = None /\ p.complement = None

\* the object and the complement of leaf p, the predicate being at verb
slotsAreFrom(p, tagged, verb) ==
  verb <= Len(tagged) =>
    objectIsUpTo(p, tagged, verb, firstFrom(tagged, verb + 1, {"PREP"}))

\* the predicate of leaf p is set only from a token before the first '.',
\* ';' or ')'
noSlotAfterStop(p, tagged, verb) ==
  verb <= Len(tagged) => verb < firstFrom(tagged, 1, {})

\* the object and the complement of leaf p, the predicate being the first
\* token tagged VERB or UNK-VERB
slotsOf(p, tagged) ==
  slotsAreFrom(p, tagged, firstTagged(tagged, {"VERB", "UNK-VERB"}))

\* the same, no slot being set from a token after a '.', ';' or ')'
slotsBeforeStop(p, tagged) ==
  /\ slotsOf(p, tagged)
  /\ noSlotAfterStop(p, tagged, firstTagged(tagged, {"VERB", "UNK-VERB"}))

\* C23, as stated: the object is the space-joined texts of the tokens after
\* the predicate up to the first preposition, the first '.', ';' or ')' or
\* the end, determiners and commas removed; the complement is the tokens
\* after the preposition and after the determiners that follow it, up to
\* the first '.', ';' or ')' or the end, determiners removed; a slot without
\* a token is unset; no token after a '.', ';' or ')' reaches any slot.
C23_ObjectAndComplement ==
  \A l \in DOMAIN leafNodes :
    slotsBeforeStop(leafNodes[l], taggedOf(leafNodes[l]))

\* C23, amended: the same object and complement; no token after a '.', ';'
\* or ')' that follows the predicate reaches any slot.
C23_ObjectAndComplementAfterPredicate ==
  \A l \in DOMAIN leafNodes :
    slotsOf(leafNodes[l], taggedOf(leafNodes[l]))

\* 'Prepare the reports on the data ; data': a determiner dropped from the
\* object and from the complement, the complement cut at the ';'
C23_Witness ==
  /\ returned # <<>>
  /\ input.kind = "slots"
  /\ input.parts = << <<"Prepare">>, <<"the">>, <<"reports">>, <<"on">>, <<"the">>, <<"data">> >>
  /\ returned[1].object = <<"reports">>
  /\ returned[1].preposition = <<"on">>
  /\ returned[1].complement = <<"data">>

\* a token tagged Verb whose normalized form ends in 'ing'
isIngVerb(tok) == tok.pos = "VERB" /\ endsWithIng(tok.normalized)

\* a token after which a Verb in 'ing' is read as a noun
isNominal(tok) ==
  \/ tok.pos \in {"NOUN", "UNK"}
  \/ tok.pos = "VERB" /\ ~endsWithIng(tok.normalized)
  \/ StartsUpper(tok.text[1])

\* no Verb in 'ing' before a nominal token or at the end
corrected(tagged) ==
  /\ \A i \in 1..(Len(tagged) - 1) :
       ~(isIngVerb(tagged[i]) /\ isNominal(tagged[i + 1]))
  /\ tagged # <<>> => ~isIngVerb(tagged[Len(tagged)])

\* C24: in the output of tag(), no token tagged Verb whose normalized form
\* ends in 'ing' is followed by a token tagged Noun or Unknown, by a Verb
\* not ending in 'ing' or by a capitalized token, and the last token is not
\* a Verb ending in 'ing', also when the following token has its Noun tag
\* from the correction pass.
C24_GerundBeforeNominalIsNoun ==
  \A l \in DOMAIN leafNodes : corrected(taggedOf(leafNodes[l]))

\* the words, each with a capital, one after the other
RECURSIVE capitalized(_)
capitalized(words) ==
  IF words = <<>> THEN <<>>
  ELSE <<capitalizeAtom(words[1][1])>> \o capitalized(Tail(words))

\* 'prepare.Reports.p.Plans.verb.prep.Object' for the statement
\* 'Prepare reports p plans verb prep object'
connectorRendering(p, verb, prep, object) ==
  <<"prepare", ".", "Reports", ".">> \o p \o <<".", "Plans", ".">>
    \o verb \o <<".">> \o prep \o <<".">> \o capitalized(object)

\* C25: a complement '<subject> <connector-verb> <prep> <object>', the
\* connector one of the connector phrases, with no infinitive verb after a
\* 'to', is rendered as Subject.verb.preposition.Object, whatever the
\* preposition of the statement is and however many words the object has.
C25_ConnectorRendering ==
  (graphdl # <<>> /\ input.kind = "connectorComplement") =>
    graphdl[1] = connectorRendering(input.parts[1], input.parts[2],
                                    input.parts[3],
                                    SubSeq(input.parts, 4, Len(input.parts)))

\* the words of the vocabulary that end in -ize, -ate, -ify, -ect, -uce or
\* -ase
SixSuffixWords == {<<"select">>, <<"inspect">>, <<"collect">>, <<"frobnicate">>}

\* the one test: not in 'ing', and a lexicon verb or one of these words
statedInfinitive(word) ==
  /\ ~endsWithIng(word)
  /\ verbsHas(word) \/ word \in SixSuffixWords

\* the statement 'Prepare reports <lead> W data' with W rendered as the
\* infinitive of rule (a), (b) or (c)
infinitiveRendering(lead, word) ==
  <<"prepare", ".", "Reports", ".">>
    \o (CASE lead = <<"to">> -> <<"to", ".">>
          [] lead = <<"on", " ", "to">> -> <<"on", ".">>
          [] OTHER -> <<"on", ".", "Plans", ".", "to", ".">>)
    \o word \o <<".", "Data">>

\* C26: rules (a), (b) and (c) decide whether the word after 'to' is an
\* infinitive verb with the same test: it does not end in 'ing' and is a
\* lexicon verb or ends in -ize, -ate, -ify, -ect, -uce or -ase.
C26_OneInfinitiveTest ==
  (graphdl # <<>> /\ input.kind = "infinitive") =>
    ((graphdl[1] = infinitiveRendering(input.parts[1], input.parts[2]))
       <=> statedInfinitive(input.parts[2]))

\* the text holds the id of a concept
hasConceptId(text) ==
  \E k \in DOMAIN conceptPhrases : indexOf(text, conceptPhrases[k][2]) > 0

\* C27: within one parse call the expanders are applied to the text as it
\* was given and the concepts are normalized afterwards, once for each
\* alternative, before it is tokenized: the root keeps the text, and no
\* alternative that came out of the expanders holds a concept id that the
\* text did not hold.
C27_ExpansionBeforeNormalization ==
  (returned # <<>> /\ input \in ParseInputs) =>
    /\ returned[1].original = input.text
    /\ \A l \in DOMAIN leafNodes :
         hasConceptId(leafNodes[l].original) => hasConceptId(input.text)

\* a statement that was expanded, one of its alternatives without a concept
\* id and with an object that holds one
C27_Witness ==
  /\ returned # <<>>
  /\ Len(returned[1].expansions) >= 2
  /\ ~hasConceptId(input.text)
  /\ \E l \in DOMAIN leafNodes :
       /\ ~hasConceptId(leafNodes[l].original)
       /\ leafNodes[l].object # None
       /\ hasConceptId(leafNodes[l].object)

\* a statement without expansions
isLeaf(p) == p.expansions = <<>> /\ ~p.hasConjunction

\* C28: the statement parse returns has hasConjunction = true if and only
\* if it has expansions; it then has two of them or more, and each is a
\* leaf: no expansions of its own and hasConjunction = false.
C28_TreeShape ==
  returned # <<>> =>
    /\ returned[1].hasConjunction <=> Len(returned[1].expansions) > 0
    /\ Len(returned[1].expansions) # 1
    /\ \A e \in DOMAIN returned[1].expansions :
         isLeaf(returned[1].expansions[e])

\* the statements of three verbs, each a leaf
C28_Witness ==
  /\ returned # <<>>
  /\ input.kind = "oxfordVerbs"
  /\ returned[1].hasConjunction
  /\ Len(returned[1].expansions) >= 3
  /\ \A e \in DOMAIN returned[1].expansions :
       isLeaf(returned[1].expansions[e])

\* the words of a slot, none when it is unset
slotWords(slot) ==
  IF slot = None THEN <<>> ELSE nonEmpty(Split(ReSpaces, slot))

\* the words of the slots of p in the order predicate, object, preposition,
\* complement, in lower case
wordsOfSlots(p) ==
  [i \in 1..Len(slotWords(p.predicate) \o slotWords(p.object)
                  \o slotWords(p.preposition) \o slotWords(p.complement)) |->
     toLowerCase((slotWords(p.predicate) \o slotWords(p.object)
                    \o slotWords(p.preposition)
                    \o slotWords(p.complement))[i])]

\* the words are texts of distinct tokens from position from on, in the
\* order of the tokens
RECURSIVE embeds(_, _, _)
embedsAt(words, tagged, at) == at > 0 /\ embeds(Tail(words), tagged, at + 1)

embeds(words, tagged, from) ==
  \/ words = <<>>
  \/ embedsAt(words, tagged,
              firstOf({i \in from..Len(tagged) :
                         tagged[i].normalized = words[1]}))

\* a complement only with a preposition; an object, a preposition or a
\* complement only with a predicate
slotsDepend(p) ==
  /\ p.complement # None => p.preposition # None
  /\ (p.object # None \/ p.preposition # None \/ p.complement # None)
       => p.predicate # None

\* C29: in the statement parse returns and in each of its expansions a
\* complement is present only with a preposition, and an object, a
\* preposition or a complement only with a predicate; the words of the
\* slots of a leaf, in the order predicate, object, preposition,
\* complement, are the texts of distinct tokens of the leaf in text order.
C29_SlotDependency ==
  returned # <<>> =>
    /\ slotsDepend(returned[1])
    /\ \A l \in DOMAIN leafNodes :
         /\ slotsDepend(leafNodes[l])
         /\ embeds(wordsOfSlots(leafNodes[l]), taggedOf(leafNodes[l]), 1)

\* 'V O p C' with lists: a node with a predicate and an object, and a leaf
\* with the four slots
C29_Witness ==
  /\ returned # <<>>
  /\ input.kind = "voc"
  /\ Len(returned[1].expansions) >= 2
  /\ returned[1].predicate # None
  /\ \E l \in DOMAIN leafNodes :
       /\ leafNodes[l].object # None
       /\ leafNodes[l].preposition # None
       /\ leafNodes[l].complement # None

\* the tags of the tokens
tagsOf(tagged) == {tagged[i].pos : i \in DOMAIN tagged}

\* no token of the statement is tagged UNK; the statement has no unknown
\* word and confidence 1
nothingUnknown(p) ==
  /\ "UNK" \notin tagsOf(taggedOf(p))
  /\ p.unknownWords = <<>>
  /\ p.confidence = 10

\* C30: no token is tagged UNK, so every node of a statement parse returns
\* has no unknown word and confidence 1, and the tally of unknown words is
\* empty after parse.
C30_NothingUnknown ==
  /\ tally = <<>>
  /\ returned # <<>> =>
       /\ nothingUnknown(returned[1])
       /\ \A e \in DOMAIN returned[1].expansions :
            nothingUnknown(returned[1].expansions[e])

\* a statement with a punctuation mark, a capitalized word that is no verb
\* and a lower-case word that is in no table
C30_Witness ==
  /\ returned # <<>>
  /\ tally = <<>>
  /\ {"PUNCT", "NOUN", "UNK-VERB"} \subseteq tagsOf(taggedOf(returned[1]))

====
